---------------------------- MODULE Spec2Model ----------------------------
(***************************************************************************)
(* A model of AwrONE_html_to_excel.py (class AWRHtmlToExcelConverter).     *)
(*                                                                         *)
(* Text is modelled as a sequence of one-character strings, so that the    *)
(* program's splitting, stripping, replacing and integer parsing are       *)
(* computed character by character, as the code computes them.             *)
(*                                                                         *)
(* Spec        the conversion run: the INI file is read line by line, then *)
(*             each extracted table is written to a worksheet and its      *)
(*             charts are built; every call into the workbook library     *)
(*             returns.                                                    *)
(* SpecFailures the same run when add_worksheet and the construction of a  *)
(*             chart may raise.                                            *)
(* SpecExtract the line scan of _extract_all_tables_from_html.             *)
(* SpecLetters the column-letter conversion applied to column numbers.     *)
(***************************************************************************)
EXTENDS Integers, Sequences, FiniteSets, TLC

VARIABLES
    ini_lines,           \* the lines of the INI file read so far
    ini_format_config,   \* self.ini_format_config: sheet -> list of [r1,c1,r2,c2,fmt]
    ini_chart_config,    \* self.ini_chart_config: sheet -> list of chart_config tuples
    excel_format_cache,  \* self.excel_format_cache: the format strings that have an object
    worksheets,          \* the worksheets of the workbook, in creation order
    format_objects,      \* the add_format calls of the sheets, in call order
    sheets_done,         \* the sheets the loop over the tables has handled
    pc,                  \* position of the run: "load", "write"
    html_lines,          \* the lines of the HTML document scanned so far
    tables,              \* _extract_all_tables_from_html: tables
    current_sheet_name,  \* _extract_all_tables_from_html: current_sheet_name
    table_html,          \* _extract_all_tables_from_html: table_html
    in_table,            \* _extract_all_tables_from_html: in_table
    scan_done,           \* the scan loop has ended and the final commit has run
    col_num,             \* _convert_column_number_to_letter: its argument
    col_index,           \* _convert_column_index_to_letter: its argument, or -1
    letters,             \* the column letters returned
    extracted,           \* the fragments handed to _extract_table_data_from_html,
                         \* each with the grid it returned
    ini_file,            \* convert_ini_to_sql: the lines read from the INI file
    sql_lines,           \* convert_ini_to_sql: sql_lines
    section,             \* convert_ini_to_sql: section
    outfile,             \* convert_ini_to_sql: the lines written to the SQL file
    sql_pc               \* convert_ini_to_sql: "start", "loop", "done"

vars == <<ini_lines, ini_format_config, ini_chart_config, excel_format_cache,
          worksheets, format_objects, sheets_done, pc, html_lines, tables,
          current_sheet_name, table_html, in_table, scan_done, col_num,
          col_index, letters, extracted, ini_file, sql_lines, section,
          outfile, sql_pc>>

runVars == <<ini_lines, ini_format_config, ini_chart_config, excel_format_cache,
             worksheets, format_objects, sheets_done, pc>>

scanVars == <<html_lines, tables, current_sheet_name, table_html, in_table,
              scan_done>>

letterVars == <<col_num, col_index, letters>>

tableVars == <<extracted>>

sqlVars == <<ini_file, sql_lines, section, outfile, sql_pc>>

(***************************************************************************)
(* Bounds of the model.                                                    *)
(***************************************************************************)
MaxIniLines == 2

MaxHtmlLines == 5

\* the column numbers converted: 1..MaxColumn
MaxColumn == 702

\* the rows of a table fragment: 0..MaxTableRows
MaxTableRows == 3

\* the lines of the INI file of SQL sections: 0..MaxSqlLines
MaxSqlLines == 4

(***************************************************************************)
(* Program constants.                                                      *)
(***************************************************************************)
MAX_EXCEL_ROWS == 65535

INI_FORMAT_PREFIX == <<"F", "O", "R", "M", "A", "T">>

INI_CHART_PREFIX == <<"C", "H", "A", "R", "T">>

CHART_TYPE_LINE == <<"L", "I", "N", "E">>

(***************************************************************************)
(* Python string primitives on character sequences.                        *)
(***************************************************************************)
Digits == <<"0", "1", "2", "3", "4", "5", "6", "7", "8", "9">>

IsDigit(c) == \E i \in 1..10 : Digits[i] = c

DigitVal(c) == (CHOOSE i \in 1..10 : Digits[i] = c) - 1

Whitespace == {" ", "\t", "\r", "\n"}

\* str(n) for n >= 0
RECURSIVE str(_)
str(n) == IF n < 10 THEN <<Digits[n + 1]>>
          ELSE str(n \div 10) \o <<Digits[(n % 10) + 1]>>

Min(S) == CHOOSE m \in S : \A x \in S : m <= x

\* s.startswith(p)
startswith(s, p) == Len(s) >= Len(p) /\ SubSeq(s, 1, Len(p)) = p

\* s.endswith(p)
endswith(s, p) ==
    Len(s) >= Len(p) /\ SubSeq(s, Len(s) - Len(p) + 1, Len(s)) = p

\* s.lstrip(chars)
RECURSIVE lstrip(_, _)
lstrip(s, chars) ==
    IF s # <<>> /\ Head(s) \in chars THEN lstrip(Tail(s), chars) ELSE s

\* s.rstrip(chars)
RECURSIVE rstrip(_, _)
rstrip(s, chars) ==
    IF s # <<>> /\ s[Len(s)] \in chars
    THEN rstrip(SubSeq(s, 1, Len(s) - 1), chars)
    ELSE s

\* s.strip(chars)
strip(s, chars) == rstrip(lstrip(s, chars), chars)

\* s.replace(c, r) for a single character c
RECURSIVE replace(_, _, _)
replace(s, c, r) ==
    IF s = <<>> THEN <<>>
    ELSE (IF Head(s) = c THEN r ELSE <<Head(s)>>) \o replace(Tail(s), c, r)

\* re.split('[seps]', s) and s.split(sep): the pieces between separators,
\* empty pieces included
RECURSIVE split(_, _)
split(s, seps) ==
    IF \A i \in 1..Len(s) : s[i] \notin seps THEN <<s>>
    ELSE LET i == CHOOSE k \in 1..Len(s) :
                    s[k] \in seps /\ \A j \in 1..(k - 1) : s[j] \notin seps
         IN  <<SubSeq(s, 1, i - 1)>> \o split(SubSeq(s, i + 1, Len(s)), seps)

\* s.split(sep, 1): split at the first separator only
split1(s, sep) ==
    IF \A i \in 1..Len(s) : s[i] # sep THEN <<s>>
    ELSE LET i == CHOOSE k \in 1..Len(s) :
                    s[k] = sep /\ \A j \in 1..(k - 1) : s[j] # sep
         IN  <<SubSeq(s, 1, i - 1), SubSeq(s, i + 1, Len(s))>>

\* int(s) raises ValueError unless, after surrounding whitespace is removed,
\* s is an optional sign followed by one or more digits
int_ok(s) ==
    LET t == strip(s, Whitespace)
        d == IF t # <<>> /\ Head(t) \in {"+", "-"} THEN Tail(t) ELSE t
    IN  d # <<>> /\ \A i \in 1..Len(d) : IsDigit(d[i])

RECURSIVE DecimalValue(_)
DecimalValue(d) ==
    IF d = <<>> THEN 0
    ELSE 10 * DecimalValue(SubSeq(d, 1, Len(d) - 1)) + DigitVal(d[Len(d)])

\* int(s) where int_ok(s)
int(s) ==
    LET t == strip(s, Whitespace)
    IN  IF Head(t) = "-" THEN 0 - DecimalValue(Tail(t))
        ELSE IF Head(t) = "+" THEN DecimalValue(Tail(t))
        ELSE DecimalValue(t)

\* a dict with key k set to v
DictSet(d, k, v) == [x \in (DOMAIN d) \cup {k} |-> IF x = k THEN v ELSE d[x]]

EmptyDict == [x \in {} |-> <<>>]

(***************************************************************************)
(* Configuration loading.                                                  *)
(***************************************************************************)
\* mutant of ParseRangeParts: the loop ends at the first part that does not
\* parse, so the parts after it are lost
RECURSIVE ParseRangeParts_StopAtBad(_, _)
ParseRangeParts_StopAtBad(ranges, format_str) ==
    IF ranges = <<>> THEN <<>>
    ELSE LET range_part == strip(Head(ranges), Whitespace)
             parts == split(range_part, {".", ":"})
         IN  IF Len(parts) = 4 /\ \A i \in 1..4 : int_ok(parts[i])
             THEN <<<<int(parts[1]), int(parts[2]), int(parts[3]),
                      int(parts[4]), format_str>>>>
                  \o ParseRangeParts_StopAtBad(Tail(ranges), format_str)
             ELSE <<>>

\* _parse_excel_cell_range: one [r1, c1, r2, c2, format_str] for each part of
\* range_str between '/' that splits on '.' and ':' into 4 integers
RECURSIVE ParseRangeParts(_, _)
ParseRangeParts(ranges, format_str) ==
    IF ranges = <<>> THEN <<>>
    ELSE LET range_part == strip(Head(ranges), Whitespace)
             parts == split(range_part, {".", ":"})
             rest == ParseRangeParts(Tail(ranges), format_str)
         IN  IF Len(parts) = 4 /\ \A i \in 1..4 : int_ok(parts[i])
             THEN <<<<int(parts[1]), int(parts[2]), int(parts[3]),
                      int(parts[4]), format_str>>>> \o rest
             ELSE rest

_parse_excel_cell_range(range_str, format_str) ==
    ParseRangeParts(split(range_str, {"/"}), format_str)

\* mutant of ExtendFormatList: the directive's rules replace the sheet's list
ExtendFormatList_Replace(old, cell_ranges) == cell_ranges

\* the sheet's list with the directive's rules appended (list.extend)
ExtendFormatList(old, cell_ranges) == old \o cell_ranges

\* _parse_format_configuration: the format mapping after the line
_parse_format_configuration(cfg, line) ==
    LET parts == split(line, {"=", "^"})
    IN  IF Len(parts) >= 4
        THEN LET sheet_name == parts[2]
                 number_format == parts[4]
                 range_str == replace(strip(parts[3], {"[", "]"}), "E",
                                      str(MAX_EXCEL_ROWS))
                 cell_ranges == _parse_excel_cell_range(range_str, number_format)
                 old == IF sheet_name \in DOMAIN cfg THEN cfg[sheet_name]
                        ELSE <<>>
             IN  DictSet(cfg, sheet_name, ExtendFormatList(old, cell_ranges))
        ELSE cfg

\* mutant of _parse_chart_configuration: the sheet's list is created before
\* the anchor is parsed, so a directive that fails to parse leaves an entry
_parse_chart_configuration_KeyFirst(cfg, line) ==
    LET halves == split1(line, "=")
    IN  IF Len(halves) < 2 THEN cfg
        ELSE LET parts == split(halves[2], {","})
                 sheet_name == parts[1]
                 old == IF sheet_name \in DOMAIN cfg THEN cfg[sheet_name] ELSE <<>>
             IN  IF Len(parts) >= 8
                 THEN IF ~int_ok(parts[6]) \/ ~int_ok(parts[7])
                      THEN DictSet(cfg, sheet_name, old)
                      ELSE DictSet(cfg, sheet_name, Append(old,
                               [range_str |-> strip(parts[2], {"[", "]"}),
                                title |-> parts[5],
                                position_row |-> int(parts[6]),
                                position_col |-> int(parts[7]),
                                chart_type |-> parts[8],
                                x_axis_format |->
                                    IF Len(parts) > 9 THEN parts[10] ELSE <<>>,
                                x_axis_title |->
                                    IF Len(parts) > 10 THEN parts[11] ELSE <<>>]))
                 ELSE cfg

\* _parse_chart_configuration: the chart mapping after the line; IndexError
\* (no '=') and ValueError (int) are caught and leave the mapping as it was
_parse_chart_configuration(cfg, line) ==
    LET halves == split1(line, "=")
    IN  IF Len(halves) < 2 THEN cfg
        ELSE LET parts == split(halves[2], {","})
             IN  IF Len(parts) >= 8
                 THEN IF ~int_ok(parts[6]) \/ ~int_ok(parts[7]) THEN cfg
                      ELSE LET sheet_name == parts[1]
                               chart_config ==
                                   [range_str |-> strip(parts[2], {"[", "]"}),
                                    title |-> parts[5],
                                    position_row |-> int(parts[6]),
                                    position_col |-> int(parts[7]),
                                    chart_type |-> parts[8],
                                    x_axis_format |->
                                        IF Len(parts) > 9 THEN parts[10] ELSE <<>>,
                                    x_axis_title |->
                                        IF Len(parts) > 10 THEN parts[11] ELSE <<>>]
                               old == IF sheet_name \in DOMAIN cfg
                                      THEN cfg[sheet_name] ELSE <<>>
                           IN  DictSet(cfg, sheet_name, Append(old, chart_config))
                 ELSE cfg

\* the loop body of load_and_parse_ini_configuration for one raw line
LineKind(raw) ==
    LET line == strip(raw, Whitespace)
    IN  IF line = <<>> THEN "skip"
        ELSE IF startswith(line, INI_FORMAT_PREFIX) THEN "format"
        ELSE IF startswith(line, INI_CHART_PREFIX) THEN "chart"
        ELSE "skip"

FormatConfigAfter(cfg, raw) ==
    IF LineKind(raw) = "format"
    THEN _parse_format_configuration(cfg, strip(raw, Whitespace))
    ELSE cfg

ChartConfigAfter(cfg, raw) ==
    IF LineKind(raw) = "chart"
    THEN _parse_chart_configuration(cfg, strip(raw, Whitespace))
    ELSE cfg

(***************************************************************************)
(* Column letters.                                                         *)
(***************************************************************************)
\* chr(k + ord('A')) for k in 0..25 is Alphabet[k + 1]
Alphabet ==
    <<"A", "B", "C", "D", "E", "F", "G", "H", "I", "J", "K", "L", "M",
      "N", "O", "P", "Q", "R", "S", "T", "U", "V", "W", "X", "Y", "Z">>

\* mutant of LetterLoop: col_num is not decremented before the digit is taken
RECURSIVE LetterLoop_NoDecrement(_, _)
LetterLoop_NoDecrement(n, result) ==
    IF n > 0
    THEN LetterLoop_NoDecrement(n \div 26, <<Alphabet[(n % 26) + 1]>> \o result)
    ELSE result

\* the while loop of _convert_column_number_to_letter
RECURSIVE LetterLoop(_, _)
LetterLoop(n, result) ==
    IF n > 0
    THEN LetterLoop((n - 1) \div 26, <<Alphabet[((n - 1) % 26) + 1]>> \o result)
    ELSE result

_convert_column_number_to_letter(n) == LetterLoop(n, <<>>)

_convert_column_index_to_letter(i) == _convert_column_number_to_letter(i + 1)

(***************************************************************************)
(* Type inference.                                                         *)
(***************************************************************************)
AllDigits(s) == \A i \in 1..Len(s) : IsDigit(s[i])

Lower(c) ==
    CASE c = "I" -> "i" [] c = "N" -> "n" [] c = "F" -> "f" [] c = "T" -> "t"
      [] c = "Y" -> "y" [] c = "A" -> "a" [] c = "E" -> "e" [] c = "R" -> "r"
      [] c = "D" -> "d" [] c = "H" -> "h" [] c = "S" -> "s" [] c = "L" -> "l"
      [] c = "C" -> "c" [] OTHER -> c

\* float(s) raises ValueError unless s, without surrounding whitespace, is an
\* optionally signed decimal (digits, an optional '.', at least one digit, an
\* optional exponent) or one of inf, infinity, nan
float_ok(s) ==
    LET t == strip(s, Whitespace)
        u == IF t # <<>> /\ Head(t) \in {"+", "-"} THEN Tail(t) ELSE t
        low == [i \in 1..Len(u) |-> Lower(u[i])]
        me == split1(low, "e")
        mant == split(me[1], {"."})
        exp == IF Len(me) = 2
               THEN (IF me[2] # <<>> /\ Head(me[2]) \in {"+", "-"}
                     THEN Tail(me[2]) ELSE me[2])
               ELSE <<"0">>
    IN  \/ low \in {<<"i", "n", "f">>, <<"n", "a", "n">>,
                    <<"i", "n", "f", "i", "n", "i", "t", "y">>}
        \/ /\ Len(mant) \in {1, 2}
           /\ \A k \in 1..Len(mant) : AllDigits(mant[k])
           /\ \E k \in 1..Len(mant) : mant[k] # <<>>
           /\ exp # <<>> /\ AllDigits(exp)

\* _is_numeric_string
_is_numeric_string(text) ==
    IF text = <<>> THEN FALSE ELSE float_ok(replace(text, ",", <<>>))

\* _is_date_string: re.match(r'^\d{4}-\d{2}-\d{2}', text) on a text of 10 or more
DatePrefixShape(text) ==
    /\ \A i \in {1, 2, 3, 4, 6, 7, 9, 10} : IsDigit(text[i])
    /\ text[5] = "-" /\ text[8] = "-"

_is_date_string(text) ==
    IF text = <<>> \/ Len(text) < 10 THEN FALSE ELSE DatePrefixShape(text)

\* _convert_date_to_excel_format
_convert_date_to_excel_format(date_str) == replace(date_str, " ", <<"T">>)

IsLeap(y) == (y % 4 = 0 /\ y % 100 # 0) \/ y % 400 = 0

DaysInMonth(y, m) ==
    IF m = 2 THEN (IF IsLeap(y) THEN 29 ELSE 28)
    ELSE IF m \in {4, 6, 9, 11} THEN 30 ELSE 31

\* a field of one or two digits whose value is at most max
FieldOk(f, min, max) ==
    /\ Len(f) \in {1, 2} /\ AllDigits(f)
    /\ DecimalValue(f) >= min /\ DecimalValue(f) <= max

\* datetime.strptime(s, '%Y-%m-%d') succeeds
StrptimeDateOk(s) ==
    LET f == split(s, {"-"})
    IN  /\ Len(f) = 3
        /\ Len(f[1]) = 4 /\ AllDigits(f[1]) /\ DecimalValue(f[1]) >= 1
        /\ FieldOk(f[2], 1, 12)
        /\ FieldOk(f[3], 1, 31)
        /\ DecimalValue(f[3]) <= DaysInMonth(DecimalValue(f[1]), DecimalValue(f[2]))

\* datetime.strptime(s, '%Y-%m-%dT%H:%M:%S') succeeds
StrptimeDateTimeOk(s) ==
    LET dt == split1(s, "T")
        t == IF Len(dt) = 2 THEN split(dt[2], {":"}) ELSE <<>>
    IN  /\ Len(dt) = 2
        /\ StrptimeDateOk(dt[1])
        /\ Len(t) = 3
        /\ FieldOk(t[1], 0, 23) /\ FieldOk(t[2], 0, 59) /\ FieldOk(t[3], 0, 59)

Prefix(s, n) == SubSeq(s, 1, IF Len(s) < n THEN Len(s) ELSE n)

MidnightSuffix == <<" ", "0", "0", ":", "0", "0", ":", "0", "0">>

\* mutant of HasTime: every text longer than 10 has a time
HasTime_AnyLongText(date_str) == Len(date_str) > 10

\* the has_time test of _write_date_value
HasTime(date_str) == Len(date_str) > 10 /\ ~endswith(date_str, MidnightSuffix)

(***************************************************************************)
(* Sheet writing.  A write is one call of write_string, write_number or    *)
(* write_datetime on the current worksheet.                                *)
(***************************************************************************)
StringFormat == [kind |-> "string_format", key |-> <<>>]

NumberFormat == [kind |-> "number_format", key |-> <<>>]

DateFormat == [kind |-> "date_format", key |-> <<>>]

DateTimeFormat == [kind |-> "datetime_format", key |-> <<>>]

CustomFormat(key) == [kind |-> "custom", key |-> key]

WriteString(row, col, value) ==
    [call |-> "write_string", row |-> row, col |-> col, value |-> value,
     format |-> StringFormat]

WriteNumber(row, col, value, fmt) ==
    [call |-> "write_number", row |-> row, col |-> col,
     value |-> replace(value, ",", <<>>), format |-> fmt]

WriteDateTime(row, col, value, fmt) ==
    [call |-> "write_datetime", row |-> row, col |-> col, value |-> value,
     format |-> fmt]

\* _write_date_value: the write it makes
_write_date_value(row, col, date_str) ==
    LET excel_date_str == _convert_date_to_excel_format(date_str)
    IN  IF HasTime(date_str)
        THEN IF StrptimeDateTimeOk(Prefix(excel_date_str, 19))
             THEN WriteDateTime(row, col, Prefix(excel_date_str, 19), DateTimeFormat)
             ELSE WriteString(row, col, date_str)
        ELSE IF StrptimeDateOk(Prefix(excel_date_str, 10))
             THEN WriteDateTime(row, col, Prefix(excel_date_str, 10), DateFormat)
             ELSE WriteString(row, col, date_str)

\* mutant of CreateFormatLoop: an object is created for every rule, whether
\* its format string is in the cache or not
RECURSIVE CreateFormatLoop_NoCacheTest(_, _, _)
CreateFormatLoop_NoCacheTest(acc, rules, i) ==
    IF i > Len(rules) THEN acc
    ELSE CreateFormatLoop_NoCacheTest(
             [cache |-> acc.cache \cup {rules[i][5]},
              calls |-> Append(acc.calls, rules[i][5])],
             rules, i + 1)

\* the loop of _create_format_objects_for_current_sheet from rule i on; acc
\* holds the cache and the format strings add_format was called with
RECURSIVE CreateFormatLoop(_, _, _)
CreateFormatLoop(acc, rules, i) ==
    IF i > Len(rules) THEN acc
    ELSE CreateFormatLoop(
             IF Len(rules[i]) >= 5 /\ rules[i][5] \notin acc.cache
             THEN [cache |-> acc.cache \cup {rules[i][5]},
                   calls |-> Append(acc.calls, rules[i][5])]
             ELSE acc,
             rules, i + 1)

\* _create_format_objects_for_current_sheet: the cache after it
_create_format_objects_for_current_sheet(cache, cfg, sheet) ==
    IF sheet \notin DOMAIN cfg THEN cache
    ELSE CreateFormatLoop([cache |-> cache, calls |-> <<>>], cfg[sheet], 1).cache

\* _create_format_objects_for_current_sheet: its add_format calls
FormatObjectsCreated(cache, cfg, sheet) ==
    IF sheet \notin DOMAIN cfg THEN <<>>
    ELSE CreateFormatLoop([cache |-> cache, calls |-> <<>>], cfg[sheet], 1).calls

\* mutant of FirstMatch: the loop does not stop at the first rule that
\* contains the cell, so the last one wins
RECURSIVE FirstMatch_LastWins(_, _, _)
FirstMatch_LastWins(rules, row_1based, col_1based) ==
    IF rules = <<>> THEN [has |-> FALSE, key |-> <<>>]
    ELSE LET f == Head(rules)
             later == FirstMatch_LastWins(Tail(rules), row_1based, col_1based)
         IN  IF later.has THEN later
             ELSE IF /\ f[1] <= row_1based /\ row_1based <= f[3]
                     /\ f[2] <= col_1based /\ col_1based <= f[4]
             THEN [has |-> TRUE, key |-> f[5]]
             ELSE later

\* the loop of _check_cell_has_custom_format over the sheet's rules
RECURSIVE FirstMatch(_, _, _)
FirstMatch(rules, row_1based, col_1based) ==
    IF rules = <<>> THEN [has |-> FALSE, key |-> <<>>]
    ELSE LET f == Head(rules)
         IN  IF /\ f[1] <= row_1based /\ row_1based <= f[3]
                /\ f[2] <= col_1based /\ col_1based <= f[4]
             THEN [has |-> TRUE, key |-> f[5]]
             ELSE FirstMatch(Tail(rules), row_1based, col_1based)

\* _check_cell_has_custom_format for the 0-based cell (row, col)
_check_cell_has_custom_format(cfg, sheet, row, col) ==
    IF sheet \notin DOMAIN cfg THEN [has |-> FALSE, key |-> <<>>]
    ELSE FirstMatch(cfg[sheet], row + 1, col + 1)

\* mutant of _write_cell_value: the general numeric check is not limited to
\* columns other than 0
_write_cell_value_AnyColumnNumeric(cache, row, col, value, has_custom_format, custom_format_key) ==
    LET custom == has_custom_format /\ custom_format_key \in cache
        first == IF custom THEN <<"numeric">> ELSE <<>>
        second == IF col = 0 THEN <<"date">> ELSE <<"numeric">>
    IN  IF value = <<>>
        THEN [tests |-> <<>>, writes |-> <<WriteString(row, col, <<>>)>>]
        ELSE IF custom /\ _is_numeric_string(value)
        THEN [tests |-> first,
              writes |-> <<WriteNumber(row, col, value,
                                       CustomFormat(custom_format_key))>>]
        ELSE IF col = 0 /\ _is_date_string(value)
        THEN [tests |-> first \o second,
              writes |-> <<_write_date_value(row, col, value)>>]
        ELSE IF _is_numeric_string(value)
        THEN [tests |-> first \o second,
              writes |-> <<WriteNumber(row, col, value,
                               IF custom THEN CustomFormat(custom_format_key)
                               ELSE NumberFormat)>>]
        ELSE [tests |-> first \o second,
              writes |-> <<WriteString(row, col, value)>>]

\* mutant of _write_cell_value: a custom format writes a number without the
\* numeric test
_write_cell_value_FormatForcesNumber(cache, row, col, value, has_custom_format, custom_format_key) ==
    LET custom == has_custom_format /\ custom_format_key \in cache
        first == IF custom THEN <<"numeric">> ELSE <<>>
        second == IF col = 0 THEN <<"date">> ELSE <<"numeric">>
    IN  IF value = <<>>
        THEN [tests |-> <<>>, writes |-> <<WriteString(row, col, <<>>)>>]
        ELSE IF custom
        THEN [tests |-> first,
              writes |-> <<WriteNumber(row, col, value,
                                       CustomFormat(custom_format_key))>>]
        ELSE IF col = 0 /\ _is_date_string(value)
        THEN [tests |-> first \o second,
              writes |-> <<_write_date_value(row, col, value)>>]
        ELSE IF col > 0 /\ _is_numeric_string(value)
        THEN [tests |-> first \o second,
              writes |-> <<WriteNumber(row, col, value,
                               IF custom THEN CustomFormat(custom_format_key)
                               ELSE NumberFormat)>>]
        ELSE [tests |-> first \o second,
              writes |-> <<WriteString(row, col, value)>>]

\* mutant of _write_cell_value: the date check is not limited to column 0
_write_cell_value_AnyColumnDate(cache, row, col, value, has_custom_format, custom_format_key) ==
    LET custom == has_custom_format /\ custom_format_key \in cache
        first == IF custom THEN <<"numeric">> ELSE <<>>
        second == IF col = 0 THEN <<"date">> ELSE <<"numeric">>
    IN  IF value = <<>>
        THEN [tests |-> <<>>, writes |-> <<WriteString(row, col, <<>>)>>]
        ELSE IF custom /\ _is_numeric_string(value)
        THEN [tests |-> first,
              writes |-> <<WriteNumber(row, col, value,
                                       CustomFormat(custom_format_key))>>]
        ELSE IF _is_date_string(value)
        THEN [tests |-> first \o second,
              writes |-> <<_write_date_value(row, col, value)>>]
        ELSE IF col > 0 /\ _is_numeric_string(value)
        THEN [tests |-> first \o second,
              writes |-> <<WriteNumber(row, col, value,
                               IF custom THEN CustomFormat(custom_format_key)
                               ELSE NumberFormat)>>]
        ELSE [tests |-> first \o second,
              writes |-> <<WriteString(row, col, value)>>]

\* _write_cell_value: the tests it applies, in order, and the writes it makes
_write_cell_value(cache, row, col, value, has_custom_format, custom_format_key) ==
    LET custom == has_custom_format /\ custom_format_key \in cache
        first == IF custom THEN <<"numeric">> ELSE <<>>
        second == IF col = 0 THEN <<"date">> ELSE <<"numeric">>
    IN  IF value = <<>>
        THEN [tests |-> <<>>, writes |-> <<WriteString(row, col, <<>>)>>]
        ELSE IF custom /\ _is_numeric_string(value)
        THEN [tests |-> first,
              writes |-> <<WriteNumber(row, col, value,
                                       CustomFormat(custom_format_key))>>]
        ELSE IF col = 0 /\ _is_date_string(value)
        THEN [tests |-> first \o second,
              writes |-> <<_write_date_value(row, col, value)>>]
        ELSE IF col > 0 /\ _is_numeric_string(value)
        THEN [tests |-> first \o second,
              writes |-> <<WriteNumber(row, col, value,
                               IF custom THEN CustomFormat(custom_format_key)
                               ELSE NumberFormat)>>]
        ELSE [tests |-> first \o second,
              writes |-> <<WriteString(row, col, value)>>]

\* one iteration of the cell loop of _write_table_data_to_worksheet
CellCall(cache, cfg, sheet, row_idx, col_idx, cell_value) ==
    LET m == _check_cell_has_custom_format(cfg, sheet, row_idx, col_idx)
        w == _write_cell_value(cache, row_idx, col_idx, cell_value, m.has, m.key)
    IN  [row |-> row_idx, col |-> col_idx, text |-> cell_value,
         has_custom_format |-> m.has, custom_format_key |-> m.key,
         tests |-> w.tests, writes |-> w.writes]

RECURSIVE RowCalls(_, _, _, _, _, _)
RowCalls(cache, cfg, sheet, row_idx, row_data, col_idx) ==
    IF col_idx >= Len(row_data) THEN <<>>
    ELSE <<CellCall(cache, cfg, sheet, row_idx, col_idx, row_data[col_idx + 1])>>
         \o RowCalls(cache, cfg, sheet, row_idx, row_data, col_idx + 1)

RECURSIVE TableCalls(_, _, _, _, _)
TableCalls(cache, cfg, sheet, table_data, row_idx) ==
    IF row_idx >= Len(table_data) THEN <<>>
    ELSE RowCalls(cache, cfg, sheet, row_idx, table_data[row_idx + 1], 0)
         \o TableCalls(cache, cfg, sheet, table_data, row_idx + 1)

(***************************************************************************)
(* Chart building.  None is modelled as the empty tuple.                   *)
(***************************************************************************)
\* mutant of _add_data_series: the header-row convention is not applied
RECURSIVE _add_data_series_NoHeaderName(_, _, _, _, _, _)
_add_data_series_NoHeaderName(sheet, r1, c1, r2, c2, categories_range) ==
    IF c1 > c2 THEN <<>>
    ELSE <<[name |-> <<>>,
            values |-> <<r1, c1, r2, c1>>,
            categories |-> categories_range]>>
         \o _add_data_series_NoHeaderName(sheet, r1, c1 + 1, r2, c2,
                                          categories_range)

\* mutant of _add_data_series: one series for the rectangle, of its first
\* column
_add_data_series_FirstColumnOnly(sheet, r1, c1, r2, c2, categories_range) ==
    IF c1 > c2 THEN <<>>
    ELSE <<[name |-> IF r1 = 0 THEN <<0, c1>> ELSE <<>>,
            values |-> <<IF r1 = 0 THEN 1 ELSE r1, c1, r2, c1>>,
            categories |-> categories_range]>>

\* _add_data_series: the series added for one value rectangle (0-based)
RECURSIVE _add_data_series(_, _, _, _, _, _)
_add_data_series(sheet, r1, c1, r2, c2, categories_range) ==
    IF c1 > c2 THEN <<>>
    ELSE <<[name |-> IF r1 = 0 THEN <<0, c1>> ELSE <<>>,
            values |-> <<IF r1 = 0 THEN 1 ELSE r1, c1, r2, c1>>,
            categories |-> categories_range]>>
         \o _add_data_series(sheet, r1, c1 + 1, r2, c2, categories_range)

\* mutant of ChartRowBound: the chart side uses the FORMAT sentinel
ChartRowBound_Sentinel(num_rows) == str(MAX_EXCEL_ROWS)

\* the row bound that replaces 'E' in a chart range
ChartRowBound(num_rows) == str(num_rows)

\* the loop of _add_series_to_chart from the part at 0-based position idx on;
\* acc holds categories_range, the series added so far and the rectangles
\* (r1, c1, r2, c2) parsed so far, as read from the directive
RECURSIVE SeriesLoop(_, _, _, _, _)
SeriesLoop(sheet, ranges, idx, num_rows, acc) ==
    IF idx >= Len(ranges) THEN acc
    ELSE LET range_part ==
                 rstrip(strip(replace(ranges[idx + 1], "E", ChartRowBound(num_rows)),
                              Whitespace), {"]"})
             parts == split(range_part, {".", ":"})
         IN  IF Len(parts) # 4 \/ \E i \in 1..Len(parts) : ~int_ok(parts[i])
             THEN SeriesLoop(sheet, ranges, idx + 1, num_rows, acc)
             ELSE LET r1 == int(parts[1]) - 1
                      c1 == int(parts[2]) - 1
                      r2 == int(parts[3]) - 1
                      c2 == int(parts[4]) - 1
                      rect == <<int(parts[1]), int(parts[2]), int(parts[3]),
                                int(parts[4])>>
                  IN  SeriesLoop(sheet, ranges, idx + 1, num_rows,
                        IF idx = 0
                        THEN [acc EXCEPT !.categories_range = <<r1, c1, r2, c2>>,
                                         !.rectangles = Append(@, rect)]
                        ELSE [acc EXCEPT
                                !.series = @ \o _add_data_series(sheet, r1, c1, r2,
                                                 c2, acc.categories_range),
                                !.rectangles = Append(@, rect)])

\* _add_series_to_chart
_add_series_to_chart(sheet, range_str, num_rows) ==
    SeriesLoop(sheet, split(range_str, {"/"}), 0, num_rows,
               [categories_range |-> <<>>, series |-> <<>>, rectangles |-> <<>>])

\* _create_and_insert_chart: the chart inserted into the worksheet
_create_and_insert_chart(sheet, chart_config, num_rows) ==
    LET s == _add_series_to_chart(sheet, chart_config.range_str, num_rows)
    IN  [range_str |-> chart_config.range_str,
         type |-> chart_config.chart_type,
         title |-> chart_config.title,
         anchor |-> <<chart_config.position_row - 1, chart_config.position_col - 1>>,
         categories_range |-> s.categories_range,
         series |-> s.series,
         rectangles |-> s.rectangles]

\* mutant of ChartLoop: the exception of a chart leaves the loop
RECURSIVE ChartLoop_AbortOnFailure(_, _, _, _, _)
ChartLoop_AbortOnFailure(sheet, rules, idx, num_rows, failing) ==
    IF idx > Len(rules) THEN <<>>
    ELSE IF idx \in failing
    THEN <<[idx |-> idx, raised |-> TRUE, chart |-> <<>>]>>
    ELSE <<[idx |-> idx, raised |-> FALSE,
            chart |-> _create_and_insert_chart(sheet, rules[idx], num_rows)]>>
         \o ChartLoop_AbortOnFailure(sheet, rules, idx + 1, num_rows, failing)

\* the loop of _add_charts_to_worksheet from the idx-th rule on (idx counts
\* from 1): one attempt per rule; failing holds the rules whose
\* _create_and_insert_chart raises, and a chart that raised is not inserted
RECURSIVE ChartLoop(_, _, _, _, _)
ChartLoop(sheet, rules, idx, num_rows, failing) ==
    IF idx > Len(rules) THEN <<>>
    ELSE <<IF idx \in failing
           THEN [idx |-> idx, raised |-> TRUE, chart |-> <<>>]
           ELSE [idx |-> idx, raised |-> FALSE,
                 chart |-> _create_and_insert_chart(sheet, rules[idx], num_rows)]>>
         \o ChartLoop(sheet, rules, idx + 1, num_rows, failing)

\* _add_charts_to_worksheet: the attempts it makes, in rule order
_add_charts_to_worksheet(cfg, sheet, num_rows, failing) ==
    IF sheet \notin DOMAIN cfg THEN <<>>
    ELSE ChartLoop(sheet, cfg[sheet], 1, num_rows, failing)

\* the charts inserted into the worksheet by the attempts
RECURSIVE InsertedCharts(_)
InsertedCharts(attempts) ==
    IF attempts = <<>> THEN <<>>
    ELSE (IF Head(attempts).raised THEN <<>> ELSE <<Head(attempts).chart>>)
         \o InsertedCharts(Tail(attempts))

\* mutant of _write_table_data_to_worksheet: when add_worksheet raises the
\* function goes on, and writes to the worksheet created before
_write_table_data_to_worksheet_NoReturn(ws, cache, fcfg, ccfg, sheet, table_data, add_worksheet_ok, failing) ==
    LET attempts == _add_charts_to_worksheet(ccfg, sheet, Len(table_data), failing)
        new_cache == _create_format_objects_for_current_sheet(cache, fcfg, sheet)
        calls == TableCalls(new_cache, fcfg, sheet, table_data, 0)
    IN  IF add_worksheet_ok \/ ws = <<>>
        THEN [worksheets |-> Append(ws, [name |-> sheet,
                                         num_rows |-> Len(table_data),
                                         calls |-> calls,
                                         chart_attempts |-> attempts,
                                         charts |-> InsertedCharts(attempts)]),
              cache |-> new_cache,
              created |-> FormatObjectsCreated(cache, fcfg, sheet),
              done |-> [name |-> sheet, created |-> add_worksheet_ok]]
        ELSE [worksheets |->
                  [ws EXCEPT ![Len(ws)].calls = @ \o calls,
                             ![Len(ws)].charts = @ \o InsertedCharts(attempts)],
              cache |-> new_cache,
              created |-> FormatObjectsCreated(cache, fcfg, sheet),
              done |-> [name |-> sheet, created |-> FALSE]]

\* _write_table_data_to_worksheet on the workbook's worksheets ws and the
\* format cache: the worksheets and the cache after it, the add_format calls
\* it made and what became of the sheet.  add_worksheet_ok tells whether
\* add_worksheet returned; when it raised the function returns at once
_write_table_data_to_worksheet(ws, cache, fcfg, ccfg, sheet, table_data, add_worksheet_ok, failing) ==
    IF ~add_worksheet_ok
    THEN [worksheets |-> ws, cache |-> cache, created |-> <<>>,
          done |-> [name |-> sheet, created |-> FALSE]]
    ELSE LET attempts == _add_charts_to_worksheet(ccfg, sheet, Len(table_data),
                                                  failing)
         IN  [worksheets |->
                  Append(ws, [name |-> sheet,
                              num_rows |-> Len(table_data),
                              calls |-> TableCalls(
                                  _create_format_objects_for_current_sheet(
                                      cache, fcfg, sheet),
                                  fcfg, sheet, table_data, 0),
                              chart_attempts |-> attempts,
                              charts |-> InsertedCharts(attempts)]),
              cache |-> _create_format_objects_for_current_sheet(cache, fcfg, sheet),
              created |-> FormatObjectsCreated(cache, fcfg, sheet),
              done |-> [name |-> sheet, created |-> TRUE]]

(***************************************************************************)
(* _extract_table_data_from_html: the grid of a table fragment.  The three *)
(* regular expressions are matched character by character, letters without *)
(* regard to case, '.' matching the line feed too.                         *)
(***************************************************************************)
\* '<tr' and '<t[hd]' at position i of s
IsOpenTag(kind, s, i) ==
    /\ i + 2 <= Len(s)
    /\ s[i] = "<" /\ Lower(s[i + 1]) = "t"
    /\ IF kind = "row" THEN Lower(s[i + 2]) = "r"
       ELSE Lower(s[i + 2]) \in {"h", "d"}

\* '</tr>' and '</t[hd]>' at position i of s
IsCloseTag(kind, s, i) ==
    /\ i + 4 <= Len(s)
    /\ s[i] = "<" /\ s[i + 1] = "/" /\ Lower(s[i + 2]) = "t"
    /\ IF kind = "row" THEN Lower(s[i + 3]) = "r"
       ELSE Lower(s[i + 3]) \in {"h", "d"}
    /\ s[i + 4] = ">"

\* the end of a tag opened at i: the first '>' after its three characters
TagEnds(s, i) == {j \in (i + 3)..Len(s) : s[j] = ">"}

\* the closing tags after position j
Closings(kind, s, j) == {k \in (j + 1)..Len(s) : IsCloseTag(kind, s, k)}

\* re.findall(r'<tr[^>]*>(.*?)</tr>', s) and
\* re.findall(r'<t[hd][^>]*>(.*?)</t[hd]>', s): the groups of the matches
\* found from position from on, leftmost first, none overlapping
RECURSIVE findall(_, _, _)
findall(kind, s, from) ==
    LET starts == {i \in from..Len(s) :
                      /\ IsOpenTag(kind, s, i)
                      /\ TagEnds(s, i) # {}
                      /\ Closings(kind, s, Min(TagEnds(s, i))) # {}}
    IN  IF starts = {} THEN <<>>
        ELSE LET i == Min(starts)
                 j == Min(TagEnds(s, i))
                 k == Min(Closings(kind, s, j))
             IN  <<SubSeq(s, j + 1, k - 1)>> \o findall(kind, s, k + 5)

\* re.sub(r'<[^>]+>', '', s)
RECURSIVE RemoveTags(_)
RemoveTags(s) ==
    IF s = <<>> THEN <<>>
    ELSE IF /\ Head(s) = "<" /\ Len(s) >= 3 /\ s[2] # ">"
            /\ \E j \in 3..Len(s) : s[j] = ">"
         THEN RemoveTags(SubSeq(s, Min({j \in 3..Len(s) : s[j] = ">"}) + 1, Len(s)))
         ELSE <<Head(s)>> \o RemoveTags(Tail(s))

\* s.replace(old, new) for a text old
RECURSIVE replace_text(_, _, _)
replace_text(s, old, new) ==
    IF s = <<>> THEN <<>>
    ELSE IF startswith(s, old)
         THEN new \o replace_text(SubSeq(s, Len(old) + 1, Len(s)), old, new)
         ELSE <<Head(s)>> \o replace_text(Tail(s), old, new)

\* the entities in the order they are replaced
ReplaceEntities(s) ==
    replace_text(
      replace_text(
        replace_text(
          replace_text(
            replace_text(s, <<"&", "n", "b", "s", "p", ";">>, <<" ">>),
            <<"&", "l", "t", ";">>, <<"<">>),
          <<"&", "g", "t", ";">>, <<">">>),
        <<"&", "a", "m", "p", ";">>, <<"&">>),
      <<"&", "q", "u", "o", "t", ";">>, <<"\"">>)

\* the text of one cell
CellText(cell_html) == strip(ReplaceEntities(RemoveTags(cell_html)), Whitespace)

\* the row_data of one row
RowData(row_html) ==
    LET cells == findall("cell", row_html, 1)
    IN  [n \in 1..Len(cells) |-> CellText(cells[n])]

\* the loop over the rows with its test 'if row_data:' left out
RECURSIVE RowLoop_KeepEmpty(_)
RowLoop_KeepEmpty(rows) ==
    IF rows = <<>> THEN <<>>
    ELSE <<RowData(Head(rows))>> \o RowLoop_KeepEmpty(Tail(rows))

\* the loop over the rows: a row without cells is not appended
RECURSIVE RowLoop(_)
RowLoop(rows) ==
    IF rows = <<>> THEN <<>>
    ELSE (IF RowData(Head(rows)) # <<>> THEN <<RowData(Head(rows))>> ELSE <<>>)
         \o RowLoop(Tail(rows))

_extract_table_data_from_html(fragment) == RowLoop(findall("row", fragment, 1))

(***************************************************************************)
(* Inputs: the INI lines, cell texts and tables the run is checked on.     *)
(***************************************************************************)
\* 'FORMAT1=a^[1.1:E.2]^#'
LineFormatAll ==
    <<"F", "O", "R", "M", "A", "T", "1", "=", "a", "^", "[", "1", ".",
    "1", ":", "E", ".", "2", "]", "^", "#">>

\* 'FORMAT1=a^[2.2:2.2/1.x:2.2/2.1:3.1]^0'
LineFormatDupBadPart ==
    <<"F", "O", "R", "M", "A", "T", "1", "=", "a", "^", "[", "2", ".",
    "2", ":", "2", ".", "2", "/", "1", ".", "x", ":", "2", ".", "2", "/",
    "2", ".", "1", ":", "3", ".", "1", "]", "^", "0">>

\* 'FORMAT4=a^[1.1:2.2]'
LineFormatShort ==
    <<"F", "O", "R", "M", "A", "T", "4", "=", "a", "^", "[", "1", ".",
    "1", ":", "2", ".", "2", "]">>

\* 'FORMAT5=b^[E.1:E.2/3.1:1.2]^#'
LineFormatInverted ==
    <<"F", "O", "R", "M", "A", "T", "5", "=", "b", "^", "[", "E", ".",
    "1", ":", "E", ".", "2", "/", "3", ".", "1", ":", "1", ".", "2", "]",
    "^", "#">>

\* 'CHART1=a,[1.1:3.1/1.2:3.2],A,q,T,2,4,LINE,TRUE,f,X'
LineChartAll ==
    <<"C", "H", "A", "R", "T", "1", "=", "a", ",", "[", "1", ".", "1",
    ":", "3", ".", "1", "/", "1", ".", "2", ":", "3", ".", "2", "]", ",",
    "A", ",", "q", ",", "T", ",", "2", ",", "4", ",", "L", "I", "N", "E",
    ",", "T", "R", "U", "E", ",", "f", ",", "X">>

\* 'CHART2=a,[1.1:2.1/1.x:2.2/2.2:3.3],A,q,U,3,5,BAR'
LineChartBadPart ==
    <<"C", "H", "A", "R", "T", "2", "=", "a", ",", "[", "1", ".", "1",
    ":", "2", ".", "1", "/", "1", ".", "x", ":", "2", ".", "2", "/", "2",
    ".", "2", ":", "3", ".", "3", "]", ",", "A", ",", "q", ",", "U", ",",
    "3", ",", "5", ",", "B", "A", "R">>

\* 'CHART3=a,[1.1:2.1/1.2:2.2],A,q,T,x,4,LINE'
LineChartBadAnchor ==
    <<"C", "H", "A", "R", "T", "3", "=", "a", ",", "[", "1", ".", "1",
    ":", "2", ".", "1", "/", "1", ".", "2", ":", "2", ".", "2", "]", ",",
    "A", ",", "q", ",", "T", ",", "x", ",", "4", ",", "L", "I", "N", "E">>

\* 'CHART4=a,[1.1:2.1/1.2:2.2],A,q,T,2,4'
LineChartShort ==
    <<"C", "H", "A", "R", "T", "4", "=", "a", ",", "[", "1", ".", "1",
    ":", "2", ".", "1", "/", "1", ".", "2", ":", "2", ".", "2", "]", ",",
    "A", ",", "q", ",", "T", ",", "2", ",", "4">>

\* 'CHART5a,[1.1:2.1/1.2:2.2],A,q,T,2,4,LINE'
LineChartNoEquals ==
    <<"C", "H", "A", "R", "T", "5", "a", ",", "[", "1", ".", "1", ":",
    "2", ".", "1", "/", "1", ".", "2", ":", "2", ".", "2", "]", ",", "A",
    ",", "q", ",", "T", ",", "2", ",", "4", ",", "L", "I", "N", "E">>

\* 'CHART6=b,[2.1:1.1/3.2:1.2/1.3:E.2],A,q,T,2,4,LINE'
LineChartInverted ==
    <<"C", "H", "A", "R", "T", "6", "=", "b", ",", "[", "2", ".", "1",
    ":", "1", ".", "1", "/", "3", ".", "2", ":", "1", ".", "2", "/", "1",
    ".", "3", ":", "E", ".", "2", "]", ",", "A", ",", "q", ",", "T", ",",
    "2", ",", "4", ",", "L", "I", "N", "E">>

\* 'CHART7=a,[x.1:2.1/1.1:E.1/1.2:E.2],A,q,T,2,4,LINE'
LineChartBadLead ==
    <<"C", "H", "A", "R", "T", "7", "=", "a", ",", "[", "x", ".", "1",
    ":", "2", ".", "1", "/", "1", ".", "1", ":", "E", ".", "1", "/", "1",
    ".", "2", ":", "E", ".", "2", "]", ",", "A", ",", "q", ",", "T", ",",
    "2", ",", "4", ",", "L", "I", "N", "E">>

\* '# FORMAT'
LineComment ==
    <<"#", " ", "F", "O", "R", "M", "A", "T">>

IniLines ==
    {LineFormatAll,
     LineFormatDupBadPart,
     LineFormatShort,
     LineFormatInverted,
     LineChartAll,
     LineChartBadPart,
     LineChartBadAnchor,
     LineChartShort,
     LineChartNoEquals,
     LineChartInverted,
     LineChartBadLead,
     LineComment}

\* the directives that load, for the runs in which library calls may raise
LoadingIniLines ==
    {LineFormatAll,
     LineFormatDupBadPart,
     LineFormatInverted,
     LineChartAll,
     LineChartBadPart,
     LineChartInverted}

\* 'abc'
TextAbc ==
    <<"a", "b", "c">>

\* '12a'
Text12a ==
    <<"1", "2", "a">>

\* '1,234.56'
TextNumber ==
    <<"1", ",", "2", "3", "4", ".", "5", "6">>

\* '42'
TextInt ==
    <<"4", "2">>

\* '2021-01-26'
TextDate ==
    <<"2", "0", "2", "1", "-", "0", "1", "-", "2", "6">>

\* '2021-01-26 19:30:00'
TextDateTime ==
    <<"2", "0", "2", "1", "-", "0", "1", "-", "2", "6", " ", "1", "9",
    ":", "3", "0", ":", "0", "0">>

\* '2021-01-26 00:00:00'
TextMidnight ==
    <<"2", "0", "2", "1", "-", "0", "1", "-", "2", "6", " ", "0", "0",
    ":", "0", "0", ":", "0", "0">>

\* '21-01-26'
TextShortYear ==
    <<"2", "1", "-", "0", "1", "-", "2", "6">>

\* '2021-13-45'
TextBadDate ==
    <<"2", "0", "2", "1", "-", "1", "3", "-", "4", "5">>

\* '2021-01-26 25:00:00'
TextBadTime ==
    <<"2", "0", "2", "1", "-", "0", "1", "-", "2", "6", " ", "2", "5",
    ":", "0", "0", ":", "0", "0">>

TextEmpty == <<>>

\* tables as _extract_table_data_from_html returns them: rows of trimmed cell
\* texts, no row empty, rows of any length
GridA ==
    <<<<TextAbc, TextAbc>>,
      <<TextDate, TextNumber>>,
      <<TextDateTime, Text12a>>>>

GridB ==
    <<<<TextInt, TextDate>>,
      <<TextBadDate, TextEmpty, TextNumber>>>>

GridC ==
    <<<<TextEmpty, TextInt>>,
      <<TextShortYear>>,
      <<TextBadTime, TextAbc>>,
      <<TextMidnight, TextDateTime>>>>

Grids == {GridA, GridB, GridC}

SheetNames == {<<"a">>, <<"b">>}

(***************************************************************************)
(* Inputs: the rows of a table fragment.                                   *)
(***************************************************************************)
\* '<tr><td>1</td><td>2.5</td></tr>'
RowNumbers ==
    <<"<", "t", "r", ">", "<", "t", "d", ">", "1", "<", "/", "t", "d",
    ">", "<", "t", "d", ">", "2", ".", "5", "<", "/", "t", "d", ">", "<",
    "/", "t", "r", ">">>

\* '<tr></tr>'
RowNoCells ==
    <<"<", "t", "r", ">", "<", "/", "t", "r", ">">>

\* '<TR class=x><TH>&amp;lt;</TH>\n<Td> <b>b</b>&nbsp;</td></TR>'
RowHeader ==
    <<"<", "T", "R", " ", "c", "l", "a", "s", "s", "=", "x", ">", "<",
    "T", "H", ">", "&", "a", "m", "p", ";", "l", "t", ";", "<", "/", "T",
    "H", ">", "\n", "<", "T", "d", ">", " ", "<", "b", ">", "b", "<", "/",
    "b", ">", "&", "n", "b", "s", "p", ";", "<", "/", "t", "d", ">", "<",
    "/", "T", "R", ">">>

\* '<tr>x<br></tr>'
RowTextOnly ==
    <<"<", "t", "r", ">", "x", "<", "b", "r", ">", "<", "/", "t", "r", ">">>

\* '<tr><td></td></tr>'
RowEmptyCell ==
    <<"<", "t", "r", ">", "<", "t", "d", ">", "<", "/", "t", "d", ">",
    "<", "/", "t", "r", ">">>

\* '<table>\n'
TableOpen ==
    <<"<", "t", "a", "b", "l", "e", ">", "\n">>

\* '</table>\n'
TableClose ==
    <<"<", "/", "t", "a", "b", "l", "e", ">", "\n">>

RowPieces == {RowNumbers, RowNoCells, RowHeader, RowTextOnly, RowEmptyCell}

\* the fragments of at most MaxTableRows rows, as the sequences of their rows
TableRowChoices == UNION {[1..n -> RowPieces] : n \in 0..MaxTableRows}

RECURSIVE JoinLines(_)
JoinLines(rows) ==
    IF rows = <<>> THEN <<>>
    ELSE Head(rows) \o <<"\n">> \o JoinLines(Tail(rows))

\* the fragment the scan captures for these rows: every line with its '\n'
TableHtml(rows) == TableOpen \o JoinLines(rows) \o TableClose

\* the one label of the documents whose tables are extracted
TableSheet == <<"a">>

\* the directives of the runs that extract their tables
TableIniLines == {LineFormatAll, LineChartBadLead}

\* the kinds of HTML line the scan tells apart: label is the sheet name of a
\* 'SQL&gt; rem [name]' match (empty: no match), start and end tell whether
\* the line contains '<table' and '</table>'
LineShapes ==
    {[label |-> <<"a">>, start |-> FALSE, end |-> FALSE],
     [label |-> <<"b">>, start |-> FALSE, end |-> FALSE],
     [label |-> <<>>, start |-> TRUE, end |-> FALSE],
     [label |-> <<>>, start |-> FALSE, end |-> TRUE],
     [label |-> <<>>, start |-> TRUE, end |-> TRUE],
     [label |-> <<>>, start |-> FALSE, end |-> FALSE],
     [label |-> <<"b">>, start |-> TRUE, end |-> TRUE]}

(***************************************************************************)
(* The conversion run.                                                     *)
(***************************************************************************)
Init ==
    /\ ini_lines = <<>>
    /\ ini_format_config = EmptyDict
    /\ ini_chart_config = EmptyDict
    /\ excel_format_cache = {}
    /\ worksheets = <<>>
    /\ format_objects = <<>>
    /\ sheets_done = <<>>
    /\ pc = "load"
    /\ html_lines = <<>>
    /\ tables = EmptyDict
    /\ current_sheet_name = <<>>
    /\ table_html = <<>>
    /\ in_table = FALSE
    /\ scan_done = FALSE
    /\ col_num = 0
    /\ col_index = -1
    /\ letters = <<>>
    /\ extracted = <<>>
    /\ ini_file = <<>>
    /\ sql_lines = <<>>
    /\ section = <<>>
    /\ outfile = <<>>
    /\ sql_pc = "start"

\* load_and_parse_ini_configuration: one iteration of the loop over the lines
LoadLine(raw) ==
    /\ pc = "load"
    /\ Len(ini_lines) < MaxIniLines
    /\ ini_lines' = Append(ini_lines, raw)
    /\ ini_format_config' = FormatConfigAfter(ini_format_config, raw)
    /\ ini_chart_config' = ChartConfigAfter(ini_chart_config, raw)
    /\ UNCHANGED <<excel_format_cache, worksheets, format_objects, sheets_done,
                   pc, scanVars, letterVars, tableVars, sqlVars>>

\* load_and_parse_ini_configuration returns at the end of the file
FinishLoad ==
    /\ pc = "load"
    /\ pc' = "write"
    /\ UNCHANGED <<ini_lines, ini_format_config, ini_chart_config,
                   excel_format_cache, worksheets, format_objects, sheets_done,
                   scanVars, letterVars, tableVars, sqlVars>>

WorksheetNames == {worksheets[i].name : i \in 1..Len(worksheets)}

\* the sheet names the loop over the tables has handled
SheetsDone == {sheets_done[i].name : i \in 1..Len(sheets_done)}

\* the chart rules of a sheet, by their position in the sheet's list
ChartRuleIndices(sheet) ==
    IF sheet \in DOMAIN ini_chart_config THEN 1..Len(ini_chart_config[sheet]) ELSE {}

\* process_html_and_create_excel: one iteration of the loop over tables.items();
\* add_worksheet_ok and failing are the outcomes of the workbook library's
\* add_worksheet and of the construction of each chart
ProcessSheet(sheet, table_data, add_worksheet_ok, failing) ==
    /\ pc = "write"
    /\ sheet \notin SheetsDone
    /\ \E r \in {_write_table_data_to_worksheet(worksheets, excel_format_cache,
                     ini_format_config, ini_chart_config, sheet, table_data,
                     add_worksheet_ok, failing)} :
           /\ worksheets' = r.worksheets
           /\ excel_format_cache' = r.cache
           /\ format_objects' = format_objects \o r.created
           /\ sheets_done' = Append(sheets_done, r.done)
    /\ UNCHANGED <<ini_lines, ini_format_config, ini_chart_config, pc, scanVars,
                   letterVars, tableVars, sqlVars>>

\* the run when every call into the workbook library returns
\* the tables dictionary is walked in insertion order, the order of the labels
\* in the document: in the documents of this run label a comes before label b,
\* and either may be missing
DocumentOrder == << <<"a">>, <<"b">> >>

PositionInDocument(sheet) ==
    CHOOSE k \in 1..Len(DocumentOrder) : DocumentOrder[k] = sheet

InDocumentOrder(sheet) ==
    \A k \in 1..Len(sheets_done) :
        PositionInDocument(sheets_done[k].name) < PositionInDocument(sheet)

Next ==
    \/ \E raw \in IniLines : LoadLine(raw)
    \/ FinishLoad
    \/ \E sheet \in SheetNames, table_data \in Grids :
          /\ InDocumentOrder(sheet)
          /\ ProcessSheet(sheet, table_data, TRUE, {})

Spec == Init /\ [][Next]_vars

\* the run when add_worksheet and the construction of a chart may raise, on
\* the directives that load
NextFailures ==
    \/ \E raw \in LoadingIniLines : LoadLine(raw)
    \/ FinishLoad
    \/ \E sheet \in SheetNames, table_data \in Grids, add_worksheet_ok \in BOOLEAN :
          \E failing \in SUBSET ChartRuleIndices(sheet) :
             ProcessSheet(sheet, table_data, add_worksheet_ok, failing)

SpecFailures == Init /\ [][NextFailures]_vars

(***************************************************************************)
(* The scan of _extract_all_tables_from_html.  A scanned line is its shape *)
(* together with its position n in the document; table_html is the         *)
(* sequence of the lines appended to it.                                   *)
(***************************************************************************)
\* mutant of CommitTable: a fragment committed under a name that already has
\* one is added to it
CommitTable_Merge(t, name, fragment) ==
    DictSet(t, name, IF name \in DOMAIN t THEN t[name] \o fragment ELSE fragment)

\* tables[current_sheet_name] = table_html
CommitTable(t, name, fragment) == DictSet(t, name, fragment)

\* table_html = line + '\n' at a table start
StartCapture(old, line) == <<line>>

\* one iteration of the loop over the lines
ScanLine(shape) ==
    LET line == [n |-> Len(html_lines) + 1, label |-> shape.label,
                 start |-> shape.start, end |-> shape.end]
    IN  /\ ~scan_done
        /\ Len(html_lines) < MaxHtmlLines
        /\ html_lines' = Append(html_lines, line)
        /\ IF line.label # <<>>
           THEN /\ IF current_sheet_name # <<>> /\ table_html # <<>>
                   THEN /\ tables' = CommitTable(tables, current_sheet_name, table_html)
                        /\ table_html' = <<>>
                   ELSE UNCHANGED <<tables, table_html>>
                /\ current_sheet_name' = line.label
                /\ in_table' = FALSE
           ELSE IF line.start
           THEN /\ in_table' = TRUE
                /\ table_html' = StartCapture(table_html, line)
                /\ UNCHANGED <<tables, current_sheet_name>>
           ELSE IF in_table /\ line.end
           THEN /\ tables' = IF current_sheet_name # <<>>
                             THEN CommitTable(tables, current_sheet_name,
                                              Append(table_html, line))
                             ELSE tables
                /\ table_html' = <<>>
                /\ in_table' = FALSE
                /\ UNCHANGED current_sheet_name
           ELSE IF in_table
           THEN /\ table_html' = Append(table_html, line)
                /\ UNCHANGED <<tables, current_sheet_name, in_table>>
           ELSE UNCHANGED <<tables, current_sheet_name, table_html, in_table>>
        /\ UNCHANGED <<scan_done, runVars, letterVars, tableVars, sqlVars>>

\* mutant of FinalCommit: nothing is committed after the last line
FinalCommit_Dropped(t, name, fragment) == t

\* the commit after the loop: if current_sheet_name and table_html
FinalCommit(t, name, fragment) ==
    IF name # <<>> /\ fragment # <<>> THEN CommitTable(t, name, fragment) ELSE t

\* after the last line: the still-open capture is committed
FinishScan ==
    /\ ~scan_done
    /\ scan_done' = TRUE
    /\ tables' = FinalCommit(tables, current_sheet_name, table_html)
    /\ UNCHANGED <<html_lines, current_sheet_name, table_html, in_table, runVars,
                   letterVars, tableVars, sqlVars>>

NextExtract ==
    \/ \E shape \in LineShapes : ScanLine(shape)
    \/ FinishScan

SpecExtract == Init /\ [][NextExtract]_vars

(***************************************************************************)
(* The run on a document whose table is extracted from its fragment.       *)
(***************************************************************************)
\* process_html_and_create_excel: one iteration of the loop over
\* tables.items(), from the fragment: the grid is extracted, and written when
\* it is not empty
ProcessTable(sheet, rows) ==
    /\ pc = "write"
    /\ sheet \notin SheetsDone
    /\ \E table_data \in {_extract_table_data_from_html(TableHtml(rows))} :
          /\ extracted' = Append(extracted,
                                 [name |-> sheet, rows |-> rows,
                                  table_html |-> TableHtml(rows),
                                  table_data |-> table_data])
          /\ IF table_data # <<>>
             THEN \E r \in {_write_table_data_to_worksheet(worksheets,
                               excel_format_cache, ini_format_config,
                               ini_chart_config, sheet, table_data, TRUE, {})} :
                     /\ worksheets' = r.worksheets
                     /\ excel_format_cache' = r.cache
                     /\ format_objects' = format_objects \o r.created
                     /\ sheets_done' = Append(sheets_done, r.done)
             ELSE /\ sheets_done' = Append(sheets_done,
                                           [name |-> sheet, created |-> FALSE])
                  /\ UNCHANGED <<worksheets, excel_format_cache, format_objects>>
    /\ UNCHANGED <<ini_lines, ini_format_config, ini_chart_config, pc, scanVars,
                   letterVars, sqlVars>>

NextTables ==
    \/ \E raw \in TableIniLines : LoadLine(raw)
    \/ FinishLoad
    \/ \E rows \in TableRowChoices : ProcessTable(TableSheet, rows)

SpecTables == Init /\ [][NextTables]_vars

(***************************************************************************)
(* ini_to_sql.py: convert_ini_to_sql.  A line of the INI file is its text  *)
(* with its position n in the file; a line of the SQL file is its text     *)
(* with the position of the INI line it copies, 0 when it copies none.     *)
(***************************************************************************)
\* the characters \w matches, of those the inputs use
WordChars ==
    {"a", "b", "c", "d", "e", "f", "g", "h", "i", "j", "k", "l", "m", "n", "o",
     "p", "q", "r", "s", "t", "u", "v", "w", "x", "y", "z", "A", "B", "C", "D",
     "E", "F", "G", "H", "I", "J", "K", "L", "M", "N", "O", "P", "Q", "R", "S",
     "T", "U", "V", "W", "X", "Y", "Z", "0", "1", "2", "3", "4", "5", "6", "7",
     "8", "9", "_"}

\* line.rstrip('\n\r') followed by line.replace('\x0D', '')
CleanLine(raw) == replace(rstrip(raw, {"\n", "\r"}), "\r", <<>>)

\* re.match(r'^\s*$', line)
IsBlankLine(line) == \A i \in 1..Len(line) : line[i] \in Whitespace

\* the lines the loop skips: comments, disabled section headers, blank lines
IsIgnoredLine(line) ==
    \/ startswith(line, <<"#">>)
    \/ startswith(line, <<"[", "#">>)
    \/ IsBlankLine(line)
    \/ line = <<>>

\* the length of the longest run of \w characters of line from position i on
RECURSIVE WordRun(_, _)
WordRun(line, i) ==
    IF i <= Len(line) /\ line[i] \in WordChars THEN 1 + WordRun(line, i + 1) ELSE 0

\* re.match(r'^\[(\w+)\]', line) matches
SectionMatches(line) ==
    /\ Len(line) >= 3 /\ line[1] = "["
    /\ WordRun(line, 2) >= 1
    /\ 2 + WordRun(line, 2) <= Len(line)
    /\ line[2 + WordRun(line, 2)] = "]"

\* section_match.group(1)
SectionName(line) == SubSeq(line, 2, 1 + WordRun(line, 2))

\* re.search(r'select', line, re.IGNORECASE)
ContainsSelect(line) ==
    \E i \in 1..(Len(line) - 5) :
        [k \in 1..6 |-> Lower(line[i + k - 1])] = <<"s", "e", "l", "e", "c", "t">>

\* a line the program writes that copies no INI line
Written(text) == [n |-> 0, text |-> text]

\* write_sql_header: the header is a fixed text that ends with the line
\* 'rem INI_NAME=' and the file name; it is kept as that line
HeaderLines ==
    <<Written(<<"r", "e", "m", " ", "I", "N", "I", "_", "N", "A", "M", "E", "=">>)>>

\* write_sql_footer
FooterLines == <<Written(<<"e", "x", "i", "t", ";">>)>>

\* write_section_sql: the lines it adds to the SQL file
write_section_sql(out, name, lines) ==
    IF lines # <<>> /\ ContainsSelect(lines[1].text)
    THEN out \o <<Written(<<"r", "e", "m", " ", "[">> \o name \o <<"]">>)>>
             \o lines \o <<Written(<<";">>)>>
    ELSE out

(***************************************************************************)
(* Inputs: the lines of the INI file of SQL sections.                      *)
(***************************************************************************)
\* '[a]\n'
SqlSectionA ==
    <<"[", "a", "]", "\n">>

\* '[b_1]\r\n'
SqlSectionB ==
    <<"[", "b", "_", "1", "]", "\r", "\n">>

\* '[#c]\n'
SqlDisabled ==
    <<"[", "#", "c", "]", "\n">>

\* 'SELECT 1\n'
SqlSelect ==
    <<"S", "E", "L", "E", "C", "T", " ", "1", "\n">>

\* 'from t\n'
SqlFrom ==
    <<"f", "r", "o", "m", " ", "t", "\n">>

\* '# x\n'
SqlComment ==
    <<"#", " ", "x", "\n">>

\* ' \t\n'
SqlBlank ==
    <<" ", "\t", "\n">>

\* 'drop t\n'
SqlDrop ==
    <<"d", "r", "o", "p", " ", "t", "\n">>

SqlIniLines ==
    {SqlSectionA, SqlSectionB, SqlDisabled, SqlSelect, SqlFrom, SqlComment,
     SqlBlank, SqlDrop}

(***************************************************************************)
(* The conversion of an INI file of SQL sections.                          *)
(***************************************************************************)
\* the files are opened and the header is written
OpenSql ==
    /\ sql_pc = "start"
    /\ sql_pc' = "loop"
    /\ outfile' = outfile \o HeaderLines
    /\ UNCHANGED <<ini_file, sql_lines, section, runVars, scanVars, letterVars,
                   tableVars>>

\* one iteration of the loop over the lines of the INI file
ReadSqlLine(raw) ==
    LET line == CleanLine(raw)
        n == Len(ini_file) + 1
    IN  /\ sql_pc = "loop"
        /\ Len(ini_file) < MaxSqlLines
        /\ ini_file' = Append(ini_file, [n |-> n, text |-> raw])
        /\ IF IsIgnoredLine(line)
           THEN UNCHANGED <<sql_lines, section, outfile>>
           ELSE IF SectionMatches(line)
           THEN /\ outfile' = IF sql_lines # <<>>
                              THEN write_section_sql(outfile, section, sql_lines)
                              ELSE outfile
                /\ sql_lines' = <<>>
                /\ section' = SectionName(line)
           ELSE /\ sql_lines' = Append(sql_lines, [n |-> n, text |-> line])
                /\ UNCHANGED <<section, outfile>>
        /\ UNCHANGED <<sql_pc, runVars, scanVars, letterVars, tableVars>>

\* the end of the INI file: the lines left are written, then the footer
FinishSql ==
    /\ sql_pc = "loop"
    /\ sql_pc' = "done"
    /\ outfile' = (IF sql_lines # <<>>
                   THEN write_section_sql(outfile, section, sql_lines)
                   ELSE outfile) \o FooterLines
    /\ UNCHANGED <<ini_file, sql_lines, section, runVars, scanVars, letterVars,
                   tableVars>>

NextSql ==
    \/ OpenSql
    \/ \E raw \in SqlIniLines : ReadSqlLine(raw)
    \/ FinishSql

SpecSql == Init /\ [][NextSql]_vars

(***************************************************************************)
(* The column-letter conversion applied to the column numbers 1..MaxColumn *)
(* and to the column indices 0..MaxColumn-1.                               *)
(***************************************************************************)
ConvertNumber(n) ==
    /\ col_num' = n
    /\ col_index' = -1
    /\ letters' = _convert_column_number_to_letter(n)
    /\ UNCHANGED <<runVars, scanVars, tableVars, sqlVars>>

ConvertIndex(i) ==
    /\ col_index' = i
    /\ col_num' = i + 1
    /\ letters' = _convert_column_index_to_letter(i)
    /\ UNCHANGED <<runVars, scanVars, tableVars, sqlVars>>

NextLetters ==
    \/ \E n \in 1..MaxColumn : ConvertNumber(n)
    \/ \E i \in 0..MaxColumn - 1 : ConvertIndex(i)

SpecLetters == Init /\ [][NextLetters]_vars

(***************************************************************************)
(* Properties of the conversion run.                                       *)
(***************************************************************************)
\* the cell calls made so far, each with the name of its sheet
CellCalls ==
    UNION {{[sheet |-> worksheets[i].name, call |-> worksheets[i].calls[j]] :
                j \in 1..Len(worksheets[i].calls)} : i \in 1..Len(worksheets)}

\* the FORMAT rules of a sheet (none when the sheet has no entry)
RulesOf(sheet) ==
    IF sheet \in DOMAIN ini_format_config THEN ini_format_config[sheet] ELSE <<>>

\* the positions of the sheet's rules whose rectangle contains the 1-based
\* cell of the 0-based (row, col)
Covering(sheet, row, col) ==
    {i \in 1..Len(RulesOf(sheet)) :
        LET f == RulesOf(sheet)[i]
        IN  /\ f[1] <= row + 1 /\ row + 1 <= f[3]
            /\ f[2] <= col + 1 /\ col + 1 <= f[4]}

\* C1: for every cell written, the resolved custom format is the numberFormat
\* of the first rule, in declaration order, whose rectangle contains
\* (row+1, col+1), and it is (False, '') when no rule contains the cell.
C1_FirstMatchWins ==
    \A c \in CellCalls :
        LET cov == Covering(c.sheet, c.call.row, c.call.col)
        IN  IF cov = {}
            THEN ~c.call.has_custom_format /\ c.call.custom_format_key = <<>>
            ELSE /\ c.call.has_custom_format
                 /\ c.call.custom_format_key = RulesOf(c.sheet)[Min(cov)][5]

\* C1 witness: a cell covered by two rules of different formats was resolved
\* to the format of the rule declared first
C1_Witness ==
    \E c \in CellCalls :
        LET cov == Covering(c.sheet, c.call.row, c.call.col)
        IN  /\ \E i, j \in cov :
                  i < j /\ RulesOf(c.sheet)[i][5] # RulesOf(c.sheet)[j][5]
            /\ c.call.custom_format_key = RulesOf(c.sheet)[Min(cov)][5]

\* the write the priority list of the sheet writer asks for
ExpectedWrite(c) ==
    LET text == c.text
        exc == replace(text, " ", <<"T">>)
    IN  IF text = <<>>
        THEN [call |-> "write_string", value |-> <<>>, format |-> StringFormat]
        ELSE IF c.has_custom_format /\ _is_numeric_string(text)
        THEN [call |-> "write_number", value |-> replace(text, ",", <<>>),
              format |-> CustomFormat(c.custom_format_key)]
        ELSE IF c.col = 0 /\ _is_date_string(text)
        THEN IF HasTime(text) /\ StrptimeDateTimeOk(Prefix(exc, 19))
             THEN [call |-> "write_datetime", value |-> Prefix(exc, 19),
                   format |-> DateTimeFormat]
             ELSE IF ~HasTime(text) /\ StrptimeDateOk(Prefix(exc, 10))
             THEN [call |-> "write_datetime", value |-> Prefix(exc, 10),
                   format |-> DateFormat]
             ELSE [call |-> "write_string", value |-> text, format |-> StringFormat]
        ELSE IF c.col # 0 /\ _is_numeric_string(text)
        THEN [call |-> "write_number", value |-> replace(text, ",", <<>>),
              format |-> IF c.has_custom_format
                         THEN CustomFormat(c.custom_format_key)
                         ELSE NumberFormat]
        ELSE [call |-> "write_string", value |-> text, format |-> StringFormat]

\* C2: every cell gets exactly one write, at its own position, and the write
\* is the one of the first applicable case of the priority list: empty text,
\* custom format and numeric, column 0 and date (plain text when strict
\* parsing fails), other column and numeric, plain text.
C2_OneWriteByPriority ==
    \A c \in CellCalls :
        /\ Len(c.call.writes) = 1
        /\ LET w == c.call.writes[1]
               e == ExpectedWrite(c.call)
           IN  /\ w.row = c.call.row /\ w.col = c.call.col
               /\ w.call = e.call /\ w.value = e.value /\ w.format = e.format

\* C2 witness: in one run a column-0 date-like text that fails strict parsing
\* was written as plain text, and a numeric text of another column was written
\* with the default number format
C2_Witness ==
    /\ \E c \in CellCalls :
          /\ c.call.col = 0 /\ _is_date_string(c.call.text)
          /\ c.call.writes[1].call = "write_string"
    /\ \E c \in CellCalls :
          /\ c.call.col # 0 /\ _is_numeric_string(c.call.text)
          /\ c.call.writes[1].format = NumberFormat
    /\ \E c \in CellCalls :
          /\ c.call.has_custom_format
          /\ c.call.writes[1].format = CustomFormat(c.call.custom_format_key)

\* C3: a cell is written as a number only if its text passes the numeric
\* test; a cell covered by a FORMAT rule whose text is empty or not numeric
\* is written as text, or as a date in column 0.
C3_NumberOnlyIfNumeric ==
    \A c \in CellCalls :
        \A k \in 1..Len(c.call.writes) :
            LET w == c.call.writes[k]
            IN  /\ w.call = "write_number" => _is_numeric_string(c.call.text)
                /\ (c.call.has_custom_format /\ ~_is_numeric_string(c.call.text))
                       => \/ w.call = "write_string"
                          \/ w.call = "write_datetime" /\ c.call.col = 0

\* C3 witness: a cell covered by a FORMAT rule holds a non-empty text that is
\* not numeric and was written as text
C3_Witness ==
    \E c \in CellCalls :
        /\ c.call.has_custom_format
        /\ c.call.text # <<>> /\ ~_is_numeric_string(c.call.text)
        /\ c.call.writes[1].call = "write_string"

\* the cell calls whose text is not empty
NonEmptyCalls == {c \in CellCalls : c.call.text # <<>>}

\* C4 as stated: in column 0 the date test is the first test applied to a
\* non-empty text, whether or not a FORMAT rule covers the cell, and a text
\* that passes it is never written as a number; in any other column the
\* numeric test is applied and the cell is never written as a date.
C4_DateFirstInColumn0 ==
    \A c \in NonEmptyCalls :
        IF c.call.col = 0
        THEN /\ c.call.tests # <<>> /\ c.call.tests[1] = "date"
             /\ _is_date_string(c.call.text)
                    => c.call.writes[1].call # "write_number"
        ELSE /\ c.call.tests # <<>> /\ c.call.tests[1] = "numeric"
             /\ c.call.writes[1].call # "write_datetime"

\* C4 amended: in column 0 the date test is the first test applied to a
\* non-empty text that no FORMAT rule covers; when a rule covers the cell the
\* numeric test is applied first and the date test only if it fails.  In both
\* cases a column-0 text that passes the date test is never written as a
\* number.  In any other column only the numeric test is applied and the cell
\* is never written as a date, even when its text passes the date test.
C4_ColumnDispatch ==
    \A c \in NonEmptyCalls :
        IF c.call.col = 0
        THEN /\ c.call.tests =
                    (IF ~c.call.has_custom_format THEN <<"date">>
                     ELSE IF _is_numeric_string(c.call.text) THEN <<"numeric">>
                     ELSE <<"numeric", "date">>)
             /\ _is_date_string(c.call.text)
                    => c.call.writes[1].call # "write_number"
        ELSE /\ \A k \in 1..Len(c.call.tests) : c.call.tests[k] = "numeric"
             /\ c.call.tests # <<>>
             /\ c.call.writes[1].call # "write_datetime"

\* C4 witness: a column-0 date text covered by a FORMAT rule was written as a
\* date, and a date text in another column was written as plain text
C4_Witness ==
    /\ \E c \in NonEmptyCalls :
          /\ c.call.col = 0 /\ c.call.has_custom_format
          /\ _is_date_string(c.call.text)
          /\ c.call.writes[1].call = "write_datetime"
    /\ \E c \in NonEmptyCalls :
          /\ c.call.col # 0 /\ _is_date_string(c.call.text)
          /\ c.call.writes[1].call = "write_string"

(***************************************************************************)
(* A range spec read token by token: the sub-ranges between '/', each the  *)
(* tokens between '.' and ':', a token being 'E' or an integer.            *)
(***************************************************************************)
SubRanges(range_str) == split(range_str, {"/"})

Tokens(sub) == split(sub, {".", ":"})

WellFormedSub(sub) ==
    LET toks == Tokens(sub)
    IN  /\ Len(toks) = 4
        /\ \A k \in 1..4 : toks[k] = <<"E">> \/ int_ok(toks[k])

TokenValue(tok, bound) == IF tok = <<"E">> THEN bound ELSE int(tok)

RectOf(sub, bound) ==
    LET toks == Tokens(sub)
    IN  [k \in 1..4 |-> TokenValue(toks[k], bound)]

\* the positions of the well-formed sub-ranges, and the k-th of them
GoodSubs(range_str) ==
    LET subs == SubRanges(range_str)
    IN  {i \in 1..Len(subs) : WellFormedSub(subs[i])}

NthGood(range_str, k) ==
    LET good == GoodSubs(range_str)
    IN  CHOOSE i \in good : Cardinality({j \in good : j <= i}) = k

\* one rectangle for each well-formed sub-range, in the order they appear
RECURSIVE RectsOfSubs(_, _)
RectsOfSubs(subs, bound) ==
    IF subs = <<>> THEN <<>>
    ELSE (IF WellFormedSub(Head(subs)) THEN <<RectOf(Head(subs), bound)>> ELSE <<>>)
         \o RectsOfSubs(Tail(subs), bound)

ExpectedRects(range_str, bound) == RectsOfSubs(SubRanges(range_str), bound)

\* the fields of a FORMAT directive of 4 or more tokens
FormatFields(raw) ==
    LET parts == split(strip(raw, Whitespace), {"=", "^"})
    IN  [id |-> parts[1], sheet |-> parts[2],
         range_str |-> strip(parts[3], {"[", "]"}), format |-> parts[4]]

NumSeparators(s, seps) == Cardinality({i \in 1..Len(s) : s[i] \in seps})

IsFormatDirective(raw) == LineKind(raw) = "format"

IsChartDirective(raw) == LineKind(raw) = "chart"

\* a FORMAT directive of 4 or more tokens
LoadableFormat(raw) ==
    IsFormatDirective(raw) /\ NumSeparators(strip(raw, Whitespace), {"=", "^"}) >= 3

\* the charts built so far, each with the row count of its sheet's table
ChartsBuilt ==
    UNION {{[num_rows |-> worksheets[i].num_rows, chart |-> worksheets[i].charts[j]] :
                j \in 1..Len(worksheets[i].charts)} : i \in 1..Len(worksheets)}

\* C5: in a FORMAT directive every 'E' row resolves to the sentinel 65535,
\* whatever the number of rows of the sheet's table; in a CHART directive
\* every 'E' row resolves to the number of rows of the table written to the
\* sheet.
C5_ToEndResolution ==
    /\ \A i \in 1..Len(ini_lines) :
          LoadableFormat(ini_lines[i]) =>
             LET f == FormatFields(ini_lines[i])
             IN  \A g \in GoodSubs(f.range_str) :
                    LET toks == Tokens(SubRanges(f.range_str)[g])
                    IN  \E n \in 1..Len(RulesOf(f.sheet)) :
                           LET rule == RulesOf(f.sheet)[n]
                           IN  /\ rule[5] = f.format
                               /\ \A k \in 1..4 :
                                     rule[k] = IF toks[k] = <<"E">> THEN 65535
                                               ELSE int(toks[k])
    /\ \A c \in ChartsBuilt :
          /\ Len(c.chart.rectangles) = Cardinality(GoodSubs(c.chart.range_str))
          /\ \A n \in 1..Len(c.chart.rectangles) :
                LET toks == Tokens(SubRanges(c.chart.range_str)
                                       [NthGood(c.chart.range_str, n)])
                IN  \A k \in {1, 3} :
                       toks[k] = <<"E">> => c.chart.rectangles[n][k] = c.num_rows

\* a chart one of whose sub-ranges ends at an 'E' row, resolved to the row
\* count of the chart's table
ResolvedToRowCount(c) ==
    \E n \in 1..Len(c.chart.rectangles) :
        /\ Tokens(SubRanges(c.chart.range_str)[NthGood(c.chart.range_str, n)])[3]
               = <<"E">>
        /\ c.chart.rectangles[n][3] = c.num_rows

\* C5 witness: a chart with 'E' rows was built on a table and its 'E' rows
\* were resolved to the table's row count, its series ending at the table's
\* last row, while a FORMAT rule of the same sheet with an 'E' row holds the
\* sentinel and was applied to a cell of the table's last row
C5_Witness ==
    \E i \in 1..Len(worksheets) :
        LET ws == worksheets[i]
        IN  /\ \E j \in 1..Len(ws.charts) :
                  /\ ResolvedToRowCount([num_rows |-> ws.num_rows,
                                         chart |-> ws.charts[j]])
                  /\ ws.charts[j].series # <<>>
                  /\ ws.charts[j].series[1].values[3] = ws.num_rows - 1
            /\ \E n \in 1..Len(RulesOf(ws.name)) :
                  /\ RulesOf(ws.name)[n][3] = 65535
                  /\ \E k \in 1..Len(ws.calls) :
                        /\ ws.calls[k].row = ws.num_rows - 1
                        /\ Covering(ws.name, ws.calls[k].row, ws.calls[k].col) = {n}
                        /\ ws.calls[k].has_custom_format

\* the directives the loader has to skip
IsBadDirective(raw) ==
    LET line == strip(raw, Whitespace)
        rest == SubSeq(line, Min({i \in 1..Len(line) : line[i] = "="}) + 1, Len(line))
    IN  \/ IsFormatDirective(raw) /\ NumSeparators(line, {"=", "^"}) + 1 < 4
        \/ /\ IsChartDirective(raw)
           /\ \/ NumSeparators(line, {"="}) = 0
              \/ NumSeparators(rest, {","}) + 1 < 8
              \/ ~int_ok(split(rest, {","})[6])
              \/ ~int_ok(split(rest, {","})[7])

\* the lines with the bad directives left out
WithoutBad(lines) == SelectSeq(lines, LAMBDA raw : ~IsBadDirective(raw))

RECURSIVE FormatConfigOf(_)
FormatConfigOf(lines) ==
    IF lines = <<>> THEN EmptyDict
    ELSE FormatConfigAfter(FormatConfigOf(SubSeq(lines, 1, Len(lines) - 1)),
                           lines[Len(lines)])

RECURSIVE ChartConfigOf(_)
ChartConfigOf(lines) ==
    IF lines = <<>> THEN EmptyDict
    ELSE ChartConfigAfter(ChartConfigOf(SubSeq(lines, 1, Len(lines) - 1)),
                          lines[Len(lines)])

\* C6: reading a FORMAT directive of fewer than 4 tokens, or a CHART directive
\* of fewer than 8 tokens, without '=' or with a non-integer anchor, leaves
\* both rule mappings as they were and the loader goes on; the mappings are
\* always those of the file with its bad directives left out, so the
\* well-formed directives after a bad one are loaded.
C6_BadDirectiveSkipped ==
    /\ [][(ini_lines' # ini_lines /\ IsBadDirective(ini_lines'[Len(ini_lines')]))
             => /\ ini_format_config' = ini_format_config
                /\ ini_chart_config' = ini_chart_config
                /\ pc' = "load"]_vars
    /\ [](/\ ini_format_config = FormatConfigOf(WithoutBad(ini_lines))
          /\ ini_chart_config = ChartConfigOf(WithoutBad(ini_lines)))

\* C6 witness: a bad CHART directive was read, and the well-formed CHART
\* directive after it was loaded
C6_Witness ==
    \E i, j \in 1..Len(ini_lines) :
        /\ i < j
        /\ IsChartDirective(ini_lines[i]) /\ IsBadDirective(ini_lines[i])
        /\ IsChartDirective(ini_lines[j]) /\ ~IsBadDirective(ini_lines[j])
        /\ \E sheet \in DOMAIN ini_chart_config : Len(ini_chart_config[sheet]) = 1

\* the rules one line contributes to a sheet, and their concatenation in file
\* order
FormatRulesOfLine(sheet, raw) ==
    LET d == FormatConfigAfter(EmptyDict, raw)
    IN  IF sheet \in DOMAIN d THEN d[sheet] ELSE <<>>

ChartRulesOfLine(sheet, raw) ==
    LET d == ChartConfigAfter(EmptyDict, raw)
    IN  IF sheet \in DOMAIN d THEN d[sheet] ELSE <<>>

RECURSIVE FormatRulesInOrder(_, _)
FormatRulesInOrder(sheet, lines) ==
    IF lines = <<>> THEN <<>>
    ELSE FormatRulesOfLine(sheet, Head(lines)) \o FormatRulesInOrder(sheet, Tail(lines))

RECURSIVE ChartRulesInOrder(_, _)
ChartRulesInOrder(sheet, lines) ==
    IF lines = <<>> THEN <<>>
    ELSE ChartRulesOfLine(sheet, Head(lines)) \o ChartRulesInOrder(sheet, Tail(lines))

\* C7: each sheet's FORMAT rule list and CHART rule list hold the rules of the
\* sheet's directives in file order: the rules of a later directive follow
\* those of the earlier ones and replace none of them, also when two
\* directives carry the same numeric suffix.
C7_DeclarationOrder ==
    /\ \A sheet \in DOMAIN ini_format_config :
          ini_format_config[sheet] = FormatRulesInOrder(sheet, ini_lines)
    /\ \A sheet \in DOMAIN ini_chart_config :
          ini_chart_config[sheet] = ChartRulesInOrder(sheet, ini_lines)
    /\ \A sheet \in SheetNames :
          /\ FormatRulesInOrder(sheet, ini_lines) # <<>>
                => sheet \in DOMAIN ini_format_config
          /\ ChartRulesInOrder(sheet, ini_lines) # <<>>
                => sheet \in DOMAIN ini_chart_config

\* C7 witness: two FORMAT directives of one sheet with the same suffix were
\* loaded, and the sheet's list is the first one's rules followed by the
\* second one's
C7_Witness ==
    /\ Len(ini_lines) >= 2
    /\ LoadableFormat(ini_lines[1]) /\ LoadableFormat(ini_lines[2])
    /\ FormatFields(ini_lines[1]).id = FormatFields(ini_lines[2]).id
    /\ ini_lines[1] # ini_lines[2]
    /\ LET sheet == FormatFields(ini_lines[1]).sheet
       IN  /\ FormatFields(ini_lines[2]).sheet = sheet
           /\ FormatRulesOfLine(sheet, ini_lines[1]) # <<>>
           /\ FormatRulesOfLine(sheet, ini_lines[2]) # <<>>
           /\ sheet \in DOMAIN ini_format_config
           /\ SubSeq(ini_format_config[sheet], 1, 
                     Len(FormatRulesOfLine(sheet, ini_lines[1]) \o
                         FormatRulesOfLine(sheet, ini_lines[2])))
                = FormatRulesOfLine(sheet, ini_lines[1]) \o
                  FormatRulesOfLine(sheet, ini_lines[2])

\* the rules the loaded FORMAT directives of a sheet ask for, in file order
RECURSIVE ExpectedFormatRules(_, _)
ExpectedFormatRules(sheet, lines) ==
    IF lines = <<>> THEN <<>>
    ELSE LET raw == Head(lines)
             mine == LoadableFormat(raw) /\ FormatFields(raw).sheet = sheet
             rects == IF mine
                      THEN ExpectedRects(FormatFields(raw).range_str, MAX_EXCEL_ROWS)
                      ELSE <<>>
         IN  [k \in 1..Len(rects) |-> rects[k] \o <<FormatFields(raw).format>>]
             \o ExpectedFormatRules(sheet, Tail(lines))

\* C8: range parsing yields one rectangle for each sub-range of exactly 4
\* integer tokens, in the order the sub-ranges appear; a sub-range that is not
\* of that form is dropped alone.  This holds for the rules of the FORMAT
\* directives and for the rectangles a chart resolves.
C8_MalformedSubRangeDroppedAlone ==
    /\ \A sheet \in SheetNames :
          RulesOf(sheet) = ExpectedFormatRules(sheet, ini_lines)
    /\ \A c \in ChartsBuilt :
          c.chart.rectangles = ExpectedRects(c.chart.range_str, c.num_rows)

\* C8 witness: a FORMAT directive and a chart each had a malformed sub-range
\* between two well-formed ones, and both well-formed ones were kept
C8_Witness ==
    /\ \E i \in 1..Len(ini_lines) :
          /\ LoadableFormat(ini_lines[i])
          /\ LET r == FormatFields(ini_lines[i]).range_str
             IN  /\ Len(SubRanges(r)) = 3 /\ GoodSubs(r) = {1, 3}
                 /\ Len(RulesOf(FormatFields(ini_lines[i]).sheet)) >= 2
    /\ \E c \in ChartsBuilt :
          /\ Len(SubRanges(c.chart.range_str)) = 3
          /\ GoodSubs(c.chart.range_str) = {1, 3}
          /\ Len(c.chart.rectangles) = 2
          /\ c.chart.series # <<>>

WellOrdered(r) == r[1] <= r[3] /\ r[2] <= r[4]

\* the rectangle with its corners exchanged so that it is well-formed
Exchanged(r) ==
    <<IF r[1] <= r[3] THEN r[1] ELSE r[3], IF r[2] <= r[4] THEN r[2] ELSE r[4],
      IF r[1] <= r[3] THEN r[3] ELSE r[1], IF r[2] <= r[4] THEN r[4] ELSE r[2]>>

\* C9 as stated: a sub-range with r1 > r2 or c1 > c2 produces no FORMAT rule
\* and no chart category or series rectangle, and its corners are never
\* exchanged to make it well-formed.
C9_MalformedRectangleRejected ==
    /\ \A sheet \in DOMAIN ini_format_config :
          \A n \in 1..Len(ini_format_config[sheet]) :
              WellOrdered(ini_format_config[sheet][n])
    /\ \A c \in ChartsBuilt :
          /\ c.chart.categories_range # <<>> => WellOrdered(c.chart.categories_range)
          /\ \A n \in 1..Len(c.chart.series) : WellOrdered(c.chart.series[n].values)
          /\ \A n \in 1..Len(c.chart.rectangles) : WellOrdered(c.chart.rectangles[n])
    /\ \A i \in 1..Len(ini_lines) :
          LoadableFormat(ini_lines[i]) =>
             LET f == FormatFields(ini_lines[i])
             IN  \A g \in GoodSubs(f.range_str) :
                    LET r == RectOf(SubRanges(f.range_str)[g], MAX_EXCEL_ROWS)
                    IN  ~WellOrdered(r) =>
                           \A n \in 1..Len(RulesOf(f.sheet)) :
                               RulesOf(f.sheet)[n] # Exchanged(r) \o <<f.format>>

(***************************************************************************)
(* Properties of the table scan.                                           *)
(***************************************************************************)
\* a fragment is the lines of one capture: consecutive lines of the document
\* from a table-start line on, none of the later ones a label line or another
\* table-start line, and none after a table-end line
OneCapture(fragment) ==
    /\ fragment # <<>>
    /\ fragment[1].label = <<>> /\ fragment[1].start
    /\ \A k \in 1..Len(fragment) :
          /\ fragment[k].n = fragment[1].n + k - 1
          /\ fragment[k].n <= Len(html_lines)
          /\ html_lines[fragment[k].n] = fragment[k]
    /\ \A k \in 2..Len(fragment) :
          /\ fragment[k].label = <<>> /\ ~fragment[k].start
          /\ k < Len(fragment) => ~fragment[k].end

\* C10: the fragment stored for a sheet name is the lines of one capture,
\* never lines of two captures, and a commit under a name that already has a
\* fragment replaces it: the new fragment holds no line of the old one.
C10_TablesNeverMerge ==
    /\ [](\A name \in DOMAIN tables : OneCapture(tables[name]))
    /\ [][\A name \in DOMAIN tables :
             (name \in DOMAIN tables' /\ tables'[name] # tables[name])
                => \A k \in 1..Len(tables'[name]) :
                      \A j \in 1..Len(tables[name]) :
                          tables'[name][k] # tables[name][j]]_vars

\* C10 witness: two tables were captured and committed under the same sheet
\* name, and the name holds the lines of the second one only
C10_Witness ==
    \E name \in DOMAIN tables :
        \E p \in 1..Len(html_lines) :
            /\ html_lines[p].label = name
            /\ p + 4 <= Len(html_lines)
            /\ html_lines[p + 1].start /\ html_lines[p + 1].label = <<>>
            /\ html_lines[p + 2].end /\ ~html_lines[p + 2].start
            /\ html_lines[p + 2].label = <<>>
            /\ html_lines[p + 3].start /\ html_lines[p + 3].label = <<>>
            /\ html_lines[p + 4].end /\ ~html_lines[p + 4].start
            /\ html_lines[p + 4].label = <<>>
            /\ tables[name] = <<html_lines[p + 3], html_lines[p + 4]>>

\* the kind of a line, as the scan tells them apart: the label test comes
\* first, then the table-start test, then the table-end test
IsLabelLine(l) == l.label # <<>>

IsStartLine(l) == l.label = <<>> /\ l.start

IsEndLine(l) == l.label = <<>> /\ ~l.start /\ l.end

\* the positions of the table-start lines and of the label lines scanned
StartPositions == {p \in 1..Len(html_lines) : IsStartLine(html_lines[p])}

LabelPositions == {p \in 1..Len(html_lines) : IsLabelLine(html_lines[p])}

Max(S) == CHOOSE x \in S : \A y \in S : y <= x

\* the lines of the document from the last table-start line on
LinesSinceStart == SubSeq(html_lines, Max(StartPositions), Len(html_lines))

\* a line was scanned in this step; the line
Scanned == Len(html_lines') = Len(html_lines) + 1

NewLine == html_lines'[Len(html_lines')]

\* the fragment is committed under the name in this step
Commits(name, fragment) ==
    name \in DOMAIN tables' /\ tables'[name] = fragment

\* the table that ends the document: the lines from the last table-start
\* line up to the first table-end line after it, or to the last line
FinalTable ==
    LET s == Max(StartPositions)
        ends == {e \in s + 1..Len(html_lines) : html_lines[e].end}
    IN  SubSeq(html_lines, s, IF ends = {} THEN Len(html_lines) ELSE Min(ends))

ZeroBased(rect) == [k \in 1..4 |-> rect[k] - 1]

\* the value rectangles of a chart, 0-based: the rectangles it resolved
\* other than its category rectangle
ValueRects(chart) ==
    LET all == [n \in 1..Len(chart.rectangles) |-> ZeroBased(chart.rectangles[n])]
    IN  IF chart.categories_range = <<>> THEN all ELSE Tail(all)

\* the series of the k-th column of a value rectangle
SeriesOfColumn(v, k) ==
    [name |-> IF v[1] = 0 THEN <<0, v[2] + k - 1>> ELSE <<>>,
     values |-> <<IF v[1] = 0 THEN 1 ELSE v[1], v[2] + k - 1, v[3], v[2] + k - 1>>]

\* the number of series added before those of the n-th value rectangle
RECURSIVE SeriesBefore(_, _)
SeriesBefore(rects, n) ==
    IF n <= 1 THEN 0
    ELSE SeriesBefore(rects, n - 1) + (rects[n - 1][4] - rects[n - 1][2] + 1)

\* C12: for every value rectangle (r1, c1, r2, c2) of a chart exactly
\* c2-c1+1 series are added, one per column from c1 to c2 in that order; a
\* rectangle that starts at row 0 gives each series the name cell (0, col)
\* and the values of rows 1..r2 of its column, any other rectangle gives no
\* name and the values of rows r1..r2; every series of the chart attaches
\* the chart's category rectangle.
C12_SeriesPerValueRectangle ==
    \A c \in ChartsBuilt :
        LET rects == ValueRects(c.chart)
        IN  /\ Len(c.chart.series) = SeriesBefore(rects, Len(rects) + 1)
            /\ \A n \in 1..Len(rects) :
                   \A k \in 1..(rects[n][4] - rects[n][2] + 1) :
                       LET sr == c.chart.series[SeriesBefore(rects, n) + k]
                       IN  /\ sr.name = SeriesOfColumn(rects[n], k).name
                           /\ sr.values = SeriesOfColumn(rects[n], k).values
            /\ \A i \in 1..Len(c.chart.series) :
                   c.chart.series[i].categories = c.chart.categories_range

\* C12 witness: a chart with a value rectangle of two columns that does not
\* start at row 0 got two series without a name, and a chart with a value
\* rectangle that starts at row 0 got a series named by the header cell
\* whose values start at row 1
C12_Witness ==
    /\ \E c \in ChartsBuilt :
          \E n \in 1..Len(ValueRects(c.chart)) :
              LET v == ValueRects(c.chart)[n]
              IN  /\ v[1] > 0 /\ v[4] = v[2] + 1
                  /\ Len(c.chart.series) >= 2
                  /\ c.chart.series[1].name = <<>>
                  /\ c.chart.series[2].name = <<>>
                  /\ c.chart.series[1].values[2] + 1 = c.chart.series[2].values[2]
                  /\ c.chart.categories_range # <<>>
    /\ \E c \in ChartsBuilt :
          /\ c.chart.categories_range # <<>>
          /\ \E i \in 1..Len(c.chart.series) :
                /\ c.chart.series[i].name # <<>>
                /\ c.chart.series[i].values[1] = 1

\* the range '1.1:3.1/1.2:3.2'
ScenarioRange ==
    <<"1", ".", "1", ":", "3", ".", "1", "/", "1", ".", "2", ":", "3", ".", "2">>

\* the worksheets of the scenario: a table of 3 rows of 2 cells written to a
\* sheet whose only CHART rule has the range '1.1:3.1/1.2:3.2'
ScenarioSheets ==
    {i \in 1..Len(worksheets) :
        /\ worksheets[i].num_rows = 3
        /\ Len(worksheets[i].calls) = 6
        /\ \A k \in 1..6 : worksheets[i].calls[k].col \in {0, 1}
        /\ worksheets[i].name \in DOMAIN ini_chart_config
        /\ Len(ini_chart_config[worksheets[i].name]) = 1
        /\ ini_chart_config[worksheets[i].name][1].range_str = ScenarioRange}

\* C13 as stated: in the scenario one chart with one series is produced, its
\* categories are rows 1-3 of column 1, its values rows 1-3 of column 2, and
\* the series has no name.
C13_NoHeaderNameInScenario ==
    \A i \in ScenarioSheets :
        LET ws == worksheets[i]
        IN  /\ Len(ws.charts) = 1
            /\ Len(ws.charts[1].series) = 1
            /\ ws.charts[1].categories_range = <<0, 0, 2, 0>>
            /\ ws.charts[1].series[1].categories = <<0, 0, 2, 0>>
            /\ ws.charts[1].series[1].values = <<0, 1, 2, 1>>
            /\ ws.charts[1].series[1].name = <<>>

\* C13: in the scenario one chart with one series is produced, its categories
\* are rows 1-3 of column 1 (0-based rows 0..2 of column 0), its values are
\* rows 2-3 of column 2 (0-based rows 1..2 of column 1), and the series is
\* named by the header cell of column 2 (0-based row 0, column 1): the start
\* row 1 of the directive is the 0-based row 0.
C13_HeaderNameInScenario ==
    \A i \in ScenarioSheets :
        LET ws == worksheets[i]
        IN  /\ Len(ws.charts) = 1
            /\ Len(ws.charts[1].series) = 1
            /\ ws.charts[1].categories_range = <<0, 0, 2, 0>>
            /\ ws.charts[1].series[1].categories = <<0, 0, 2, 0>>
            /\ ws.charts[1].series[1].values = <<1, 1, 2, 1>>
            /\ ws.charts[1].series[1].name = <<0, 1>>

\* C13 witness: the worksheet of the scenario was written and its chart was
\* inserted
C13_Witness ==
    \E i \in ScenarioSheets :
        /\ Len(worksheets[i].charts) = 1
        /\ worksheets[i].charts[1].range_str = ScenarioRange
        /\ worksheets[i].charts[1].series # <<>>

\* the rectangles of a chart after the first, 0-based
LaterRects(chart) ==
    [n \in 1..Len(chart.rectangles) - 1 |-> ZeroBased(chart.rectangles[n + 1])]

\* C14 as stated: the category rectangle of a chart is the first rectangle
\* it resolved, that is the first sub-range of the directive that is well
\* formed, and every later resolved rectangle, and no other, is a value
\* rectangle whose series attach that category rectangle; also when the
\* leading sub-range of the directive was dropped as malformed.
C14_FirstResolvedIsCategory ==
    \A c \in ChartsBuilt :
        c.chart.rectangles # <<>> =>
           /\ c.chart.categories_range = ZeroBased(c.chart.rectangles[1])
           /\ Len(c.chart.series) =
                  SeriesBefore(LaterRects(c.chart), Len(c.chart.rectangles))
           /\ \A i \in 1..Len(c.chart.series) :
                  c.chart.series[i].categories = ZeroBased(c.chart.rectangles[1])

(***************************************************************************)
(* Properties of the run when library calls may raise.                     *)
(***************************************************************************)
\* the chart rules of a sheet
ChartRulesOf(sheet) ==
    IF sheet \in DOMAIN ini_chart_config THEN ini_chart_config[sheet] ELSE <<>>

\* the attempts of a worksheet that did not raise, by position
InsertedAttempts(ws) ==
    {k \in 1..Len(ws.chart_attempts) : ~ws.chart_attempts[k].raised}

\* a chart of some worksheet raised
SomeChartRaised ==
    \E i \in 1..Len(worksheets) :
        \E k \in 1..Len(worksheets[i].chart_attempts) :
            worksheets[i].chart_attempts[k].raised

\* the sheet can be handled next: the guard of ProcessSheet
CanProcess(sheet) == pc = "write" /\ sheet \notin SheetsDone

\* C15: on every worksheet each chart rule of the sheet was attempted once,
\* in declaration order, whichever of the attempts raised; the charts in the
\* worksheet are those of the attempts that did not raise, in that order;
\* and after a chart raised the run is still writing sheets: every sheet not
\* yet handled can be handled.
C15_ChartFailureIsolated ==
    /\ \A i \in 1..Len(worksheets) :
          LET ws == worksheets[i]
              rules == ChartRulesOf(ws.name)
          IN  /\ Len(ws.chart_attempts) = Len(rules)
              /\ \A k \in 1..Len(rules) :
                    /\ ws.chart_attempts[k].idx = k
                    /\ ~ws.chart_attempts[k].raised
                          => ws.chart_attempts[k].chart.range_str = rules[k].range_str
              /\ Len(ws.charts) = Cardinality(InsertedAttempts(ws))
              /\ \A k \in InsertedAttempts(ws) :
                    ws.charts[Cardinality({j \in InsertedAttempts(ws) : j <= k})]
                        = ws.chart_attempts[k].chart
    /\ SomeChartRaised =>
          /\ pc = "write"
          /\ \A sheet \in SheetNames \ SheetsDone : CanProcess(sheet)

\* C15 witness: the first chart of a sheet with two chart rules raised, the
\* second was inserted into the worksheet, and the next sheet was written
C15_Witness ==
    /\ Len(worksheets) = 2
    /\ Len(worksheets[1].chart_attempts) = 2
    /\ worksheets[1].chart_attempts[1].raised
    /\ ~worksheets[1].chart_attempts[2].raised
    /\ worksheets[1].charts = <<worksheets[1].chart_attempts[2].chart>>
    /\ worksheets[2].calls # <<>>

\* the sheets whose worksheet could not be created
FailedSheets ==
    {sheets_done[i].name : i \in {j \in 1..Len(sheets_done) : ~sheets_done[j].created}}

\* a sheet is handled in this step and its worksheet cannot be created
CreationFails ==
    /\ Len(sheets_done') = Len(sheets_done) + 1
    /\ ~sheets_done'[Len(sheets_done')].created

\* C16: the step in which the worksheet of a sheet cannot be created changes
\* no worksheet (no cell and no chart is written, to the worksheet created
\* before or to any other), creates no format object and leaves the format
\* cache as it was; the sheet has no worksheet afterwards, and the run is
\* still writing sheets: every sheet not yet handled can be handled.
C16_WorksheetFailureIsolated ==
    /\ [][CreationFails
             => /\ worksheets' = worksheets
                /\ excel_format_cache' = excel_format_cache
                /\ format_objects' = format_objects
                /\ pc' = "write"]_vars
    /\ [](/\ FailedSheets \cap WorksheetNames = {}
          /\ WorksheetNames \cup FailedSheets = SheetsDone
          /\ FailedSheets # {} =>
                \A sheet \in SheetNames \ SheetsDone : CanProcess(sheet))

\* C16 witness: a worksheet was created and written; the worksheet of the
\* next sheet, which has FORMAT and CHART rules, could not be created, and
\* the workbook holds the first worksheet only
C16_Witness ==
    /\ Len(sheets_done) = 2
    /\ sheets_done[1].created /\ ~sheets_done[2].created
    /\ Len(worksheets) = 1
    /\ worksheets[1].name = sheets_done[1].name
    /\ worksheets[1].calls # <<>>
    /\ sheets_done[2].name \in DOMAIN ini_format_config
    /\ sheets_done[2].name \in DOMAIN ini_chart_config
    /\ \A n \in 1..Len(ini_format_config[sheets_done[2].name]) :
          ini_format_config[sheets_done[2].name][n][5] \notin excel_format_cache

(***************************************************************************)
(* Properties of the date classification.                                  *)
(***************************************************************************)
\* the text has 10 or more characters and starts with four digits, a dash,
\* two digits, a dash and two digits
ShapeYMD(text) ==
    /\ Len(text) >= 10
    /\ \A i \in 1..4 : IsDigit(text[i])
    /\ text[5] = "-"
    /\ \A i \in 6..7 : IsDigit(text[i])
    /\ text[8] = "-"
    /\ \A i \in 9..10 : IsDigit(text[i])

\* the text is longer than 10 and its last 9 characters are not ' 00:00:00'
WithTime(text) ==
    /\ Len(text) > 10
    /\ SubSeq(text, Len(text) - 8, Len(text)) # MidnightSuffix

\* the cell calls to which the date test was applied and whose text passed
DateCalls ==
    {c \in CellCalls :
        /\ \E k \in 1..Len(c.call.tests) : c.call.tests[k] = "date"
        /\ _is_date_string(c.call.text)}

\* C17: a text passes the date test exactly when it has 10 or more characters
\* and starts with YYYY-MM-DD; a text that passed is written by the
\* date-with-time branch exactly when it is longer than 10 and does not end
\* in ' 00:00:00', and by the date-only branch otherwise: a date written
\* from it has the date-time format in the first case and the date format in
\* the second.  '2021-01-26' and '2021-01-26 00:00:00' are date-only,
\* '2021-01-26 19:30:00' is date-with-time and '21-01-26' fails the test.
C17_DateClassification ==
    /\ \A c \in CellCalls : _is_date_string(c.call.text) <=> ShapeYMD(c.call.text)
    /\ \A c \in DateCalls :
          /\ HasTime(c.call.text) <=> WithTime(c.call.text)
          /\ c.call.writes[1].call = "write_datetime" =>
                /\ c.call.writes[1].format =
                       (IF WithTime(c.call.text) THEN DateTimeFormat ELSE DateFormat)
                /\ Len(c.call.writes[1].value) =
                       (IF WithTime(c.call.text) THEN 19 ELSE 10)
    /\ _is_date_string(TextDate) /\ ~HasTime(TextDate)
    /\ _is_date_string(TextMidnight) /\ ~HasTime(TextMidnight)
    /\ _is_date_string(TextDateTime) /\ HasTime(TextDateTime)
    /\ ~_is_date_string(TextShortYear)

\* C17 witness: in column 0 of the sheets written, '2021-01-26 00:00:00' was
\* written as a date with the date format, '2021-01-26 19:30:00' as a date
\* with the date-time format, and '21-01-26' as plain text
C17_Witness ==
    /\ \E c \in DateCalls :
          /\ c.call.text = TextMidnight
          /\ c.call.writes[1].call = "write_datetime"
          /\ c.call.writes[1].format = DateFormat
    /\ \E c \in DateCalls :
          /\ c.call.text = TextDateTime
          /\ c.call.writes[1].call = "write_datetime"
          /\ c.call.writes[1].format = DateTimeFormat
    /\ \E c \in CellCalls :
          /\ c.call.text = TextShortYear /\ c.call.col = 0
          /\ c.call.tests = <<"date">>
          /\ c.call.writes[1].call = "write_string"

(***************************************************************************)
(* Properties of the column letters.                                       *)
(***************************************************************************)
\* the position of a letter in the alphabet
LetterRank(ch) == CHOOSE k \in 1..26 : Alphabet[k] = ch

\* a comes before b among strings of the same length
RECURSIVE AlphabeticallyBefore(_, _)
AlphabeticallyBefore(a, b) ==
    IF a = <<>> THEN FALSE
    ELSE \/ LetterRank(Head(a)) < LetterRank(Head(b))
         \/ Head(a) = Head(b) /\ AlphabeticallyBefore(Tail(a), Tail(b))

\* spreadsheet collation: shorter strings first, then alphabetical
Precedes(a, b) ==
    \/ Len(a) < Len(b)
    \/ Len(a) = Len(b) /\ AlphabeticallyBefore(a, b)

\* C18: the letters of a column number come after the letters of every
\* smaller column number in spreadsheet collation order (so the conversion
\* is injective and order-preserving); 1 gives 'A', 26 'Z', 27 'AA' and 702
\* 'ZZ'; the letters of a column index i are those of the column number i+1.
C18_ColumnLettersOrdered ==
    /\ col_num >= 1 =>
          /\ letters # <<>>
          /\ \A k \in 1..Len(letters) : \E r \in 1..26 : letters[k] = Alphabet[r]
          /\ \A m \in 1..col_num - 1 :
                Precedes(_convert_column_number_to_letter(m), letters)
    /\ col_num = 1 => letters = <<"A">>
    /\ col_num = 26 => letters = <<"Z">>
    /\ col_num = 27 => letters = <<"A", "A">>
    /\ col_num = 702 => letters = <<"Z", "Z">>
    /\ col_index >= 0 =>
          /\ col_num = col_index + 1
          /\ letters = _convert_column_number_to_letter(col_index + 1)

\* C18 witness: the column index 701 was converted, to 'ZZ'
C18_Witness ==
    /\ col_index = 701
    /\ col_num = 702
    /\ letters = <<"Z", "Z">>

(***************************************************************************)
(* Properties of short CHART directives.                                   *)
(***************************************************************************)
\* the comma-separated fields after the '=' of a CHART directive with '='
ChartFields(raw) ==
    LET line == strip(raw, Whitespace)
    IN  split(SubSeq(line, Min({i \in 1..Len(line) : line[i] = "="}) + 1, Len(line)),
              {","})

\* the k-th field, or the default when the directive has fewer than k fields
FieldOr(fields, k, default) == IF Len(fields) >= k THEN fields[k] ELSE default

\* a CHART directive with '=', a sheet name and a range, whose anchor fields
\* are integers where present
TolerableChart(raw) ==
    /\ IsChartDirective(raw)
    /\ NumSeparators(strip(raw, Whitespace), {"="}) >= 1
    /\ Len(ChartFields(raw)) >= 2
    /\ int_ok(FieldOr(ChartFields(raw), 6, <<"2">>))
    /\ int_ok(FieldOr(ChartFields(raw), 7, <<"2">>))

\* the chart rule the directive asks for, absent fields taking their defaults
RuleWithDefaults(raw) ==
    LET f == ChartFields(raw)
    IN  [range_str |-> strip(f[2], {"[", "]"}),
         title |-> FieldOr(f, 5, <<>>),
         position_row |-> int(FieldOr(f, 6, <<"2">>)),
         position_col |-> int(FieldOr(f, 7, <<"2">>)),
         chart_type |-> FieldOr(f, 8, CHART_TYPE_LINE),
         x_axis_format |-> FieldOr(f, 10, <<>>),
         x_axis_title |-> FieldOr(f, 11, <<>>)]

\* C19 as stated: every CHART directive read is loaded as a chart rule of its
\* sheet, also when anchorRow, anchorCol or chartType is absent, with the
\* absent fields taking the values 2, 2 and LINE, and with xAxisFormat and
\* xAxisTitle empty when absent.
C19_ShortChartLoadedWithDefaults ==
    \A i \in 1..Len(ini_lines) :
        TolerableChart(ini_lines[i]) =>
           LET sheet == ChartFields(ini_lines[i])[1]
           IN  /\ sheet \in DOMAIN ini_chart_config
               /\ \E n \in 1..Len(ini_chart_config[sheet]) :
                      ini_chart_config[sheet][n] = RuleWithDefaults(ini_lines[i])

(***************************************************************************)
(* Properties of the format cache.                                         *)
(***************************************************************************)
\* the format strings of the rules of the sheets that have a worksheet
FormatStringsWritten ==
    UNION {{RulesOf(sheet)[n][5] : n \in 1..Len(RulesOf(sheet))} :
               sheet \in WorksheetNames}

\* the number of add_format calls made for a format string
TimesCreated(key) ==
    Cardinality({k \in 1..Len(format_objects) : format_objects[k] = key})

\* C20: over the whole run a format object is created at most once for each
\* format string; a key of the cache is never removed and no object is
\* created again for it; the cache holds exactly the format strings an
\* object was created for, and the number of objects created is the number
\* of distinct format strings among the rules of the sheets written.
C20_CacheWriteOncePerKey ==
    /\ [](/\ \A key \in excel_format_cache : TimesCreated(key) = 1
          /\ \A k \in 1..Len(format_objects) : format_objects[k] \in excel_format_cache
          /\ excel_format_cache = FormatStringsWritten
          /\ Len(format_objects) = Cardinality(FormatStringsWritten))
    /\ [][/\ excel_format_cache \subseteq excel_format_cache'
          /\ Len(format_objects') >= Len(format_objects)
          /\ SubSeq(format_objects', 1, Len(format_objects)) = format_objects
          /\ \A k \in Len(format_objects) + 1..Len(format_objects') :
                format_objects'[k] \notin excel_format_cache]_vars

\* C20 witness: two sheets that each have a rule with the same format string
\* were written, the second after the first had created the object, and one
\* object was created for that string
C20_Witness ==
    /\ Len(worksheets) = 2
    /\ \E key \in excel_format_cache :
          /\ \A i \in 1..2 :
                \E n \in 1..Len(RulesOf(worksheets[i].name)) :
                    RulesOf(worksheets[i].name)[n][5] = key
          /\ TimesCreated(key) = 1
    /\ Len(format_objects) = Cardinality(FormatStringsWritten)

(***************************************************************************)
(* Rows without cells.                                                     *)
(***************************************************************************)
\* the cells each row of the inputs holds, as texts
CellsOfRow(row) ==
    CASE row = RowNumbers -> << <<"1">>, <<"2", ".", "5">> >>
      [] row = RowNoCells -> <<>>
      [] row = RowHeader -> << <<"&", "l", "t", ";">>, <<"b">> >>
      [] row = RowTextOnly -> <<>>
      [] row = RowEmptyCell -> << <<>> >>

\* the rows that hold at least one cell, in document order
RECURSIVE RowsWithCells(_)
RowsWithCells(rows) ==
    IF rows = <<>> THEN <<>>
    ELSE (IF CellsOfRow(Head(rows)) # <<>> THEN <<CellsOfRow(Head(rows))>> ELSE <<>>)
         \o RowsWithCells(Tail(rows))

\* the row indices the sheet writer wrote cells at
RowsWritten(ws) == {ws.calls[k].row : k \in 1..Len(ws.calls)}

\* the worksheets created for a sheet name
WorksheetsNamed(name) == {i \in 1..Len(worksheets) : worksheets[i].name = name}

\* every 'E' row of every chart of the worksheet resolved to n
ToEndResolvedTo(ws, n) ==
    \A j \in 1..Len(ws.charts) :
        \A m \in 1..Len(ws.charts[j].rectangles) :
            LET toks == Tokens(SubRanges(ws.charts[j].range_str)
                                   [NthGood(ws.charts[j].range_str, m)])
            IN  \A k \in {1, 3} :
                   toks[k] = <<"E">> => ws.charts[j].rectangles[m][k] = n

\* C21: the grid returned for a fragment has no empty row and holds the rows
\* that have at least one cell, in document order; its rows are written at
\* the consecutive row indices 0..n-1, and the row count n that resolves the
\* 'E' rows of the sheet's charts is the number of rows written.  A fragment
\* none of whose rows has a cell gets no worksheet.
C21_EmptyRowsDropped ==
    \A x \in 1..Len(extracted) :
        LET e == extracted[x]
            n == Len(e.table_data)
        IN  /\ \A r \in 1..n : e.table_data[r] # <<>>
            /\ e.table_data = RowsWithCells(e.rows)
            /\ IF n = 0 THEN WorksheetsNamed(e.name) = {}
               ELSE /\ Cardinality(WorksheetsNamed(e.name)) = 1
                    /\ \A i \in WorksheetsNamed(e.name) :
                          LET ws == worksheets[i]
                          IN  /\ RowsWritten(ws) = 0..(n - 1)
                              /\ \A k, l \in 1..Len(ws.calls) :
                                    k < l => ws.calls[k].row <= ws.calls[l].row
                              /\ ws.num_rows = Cardinality(RowsWritten(ws))
                              /\ ToEndResolvedTo(ws, Cardinality(RowsWritten(ws)))

\* C21 witness: a fragment with a row without cells between two rows with
\* cells was extracted and written at the row indices 0 and 1, and a chart of
\* the sheet had its 'E' rows resolved to 2
C21_Witness ==
    \E x \in 1..Len(extracted) :
        LET e == extracted[x]
        IN  /\ Len(e.rows) = 3
            /\ CellsOfRow(e.rows[1]) # <<>>
            /\ CellsOfRow(e.rows[2]) = <<>>
            /\ CellsOfRow(e.rows[3]) # <<>>
            /\ Len(e.table_data) = 2
            /\ \E i \in WorksheetsNamed(e.name) :
                  /\ RowsWritten(worksheets[i]) = {0, 1}
                  /\ \E j \in 1..Len(worksheets[i].charts) :
                        \E m \in 1..Len(worksheets[i].charts[j].rectangles) :
                           /\ worksheets[i].charts[j].rectangles[m][3] = 2
                           /\ Tokens(SubRanges(worksheets[i].charts[j].range_str)
                                 [NthGood(worksheets[i].charts[j].range_str, m)])[3]
                                 = <<"E">>

(***************************************************************************)
(* Categories and values of a series.                                      *)
(***************************************************************************)
\* the number of rows of a range (r1, c1, r2, c2)
RowSpan(range) == range[3] - range[1] + 1

\* the chart's first rectangle became its category range, and every value
\* rectangle of the directive spans the rows of the category rectangle
SameRowsInDirective(chart) ==
    /\ chart.categories_range # <<>>
    /\ chart.rectangles # <<>>
    /\ chart.categories_range = [k \in 1..4 |-> chart.rectangles[1][k] - 1]
    /\ \A m \in 2..Len(chart.rectangles) :
          /\ chart.rectangles[m][1] = chart.rectangles[1][1]
          /\ chart.rectangles[m][3] = chart.rectangles[1][3]

\* C22 as stated: in a chart whose category rectangle and value rectangles
\* span the same rows in the directive, the value range of every series has
\* as many rows as the category range attached to it, also when the
\* header-row convention moves the start of the value range to row 1.
C22_CategoriesValuesAligned ==
    \A c \in ChartsBuilt :
        SameRowsInDirective(c.chart) =>
            \A n \in 1..Len(c.chart.series) :
                LET s == c.chart.series[n]
                IN  s.categories # <<>> => RowSpan(s.values) = RowSpan(s.categories)

(***************************************************************************)
(* The label of a committed line.                                          *)
(***************************************************************************)
\* the label lines before position n
LabelsBefore(n) == {p \in LabelPositions : p < n}

\* the line at position n comes after a label line for the name and before
\* the next label line
UnderLabel(n, name) ==
    /\ LabelsBefore(n) # {}
    /\ html_lines[Max(LabelsBefore(n))].label = name

\* C23 as stated: every line of the fragment committed under a sheet name
\* comes after a label line for that name and before the next label line; a
\* line of a table that started before the first label line is committed
\* under no sheet name.
C23_LinesUnderOwnLabel ==
    \A name \in DOMAIN tables :
        \A k \in 1..Len(tables[name]) : UnderLabel(tables[name][k].n, name)

(***************************************************************************)
(* Disabled sections of the INI file of SQL sections.                      *)
(***************************************************************************)
\* the line at position p is the header of a disabled section, of a section
IsDisabledHeader(p) == startswith(CleanLine(ini_file[p].text), <<"[", "#">>)

IsActiveHeader(p) ==
    /\ ~IsIgnoredLine(CleanLine(ini_file[p].text))
    /\ SectionMatches(CleanLine(ini_file[p].text))

\* the section headers before position n
HeadersBefore(n) == {p \in 1..(n - 1) : IsDisabledHeader(p) \/ IsActiveHeader(p)}

\* the line at position n lies between the header of a disabled section and
\* the next section header
InDisabledSection(n) ==
    /\ ~IsDisabledHeader(n) /\ ~IsActiveHeader(n)
    /\ HeadersBefore(n) # {}
    /\ IsDisabledHeader(Max(HeadersBefore(n)))

\* the positions of the INI lines the SQL file holds a copy of
CopiedPositions == {outfile[k].n : k \in 1..Len(outfile)} \ {0}

\* C24 as stated: no line that lies between the header of a disabled section
\* and the next section header is written to the SQL file, neither in a
\* statement of its own nor in the statement of the active section before it.
C24_DisabledSectionIgnored ==
    \A n \in 1..Len(ini_file) : InDisabledSection(n) => n \notin CopiedPositions

=============================================================================
